---------------------------- MODULE Spec2Model ----------------------------
(***************************************************************************)
(* A model of tundraix: the tokenizer (tokenizer.rs), the single-pass      *)
(* Pratt compiler (compiler.rs), the chunk (chunk.rs), the values          *)
(* (value.rs) and the stack VM (vm.rs).                                    *)
(*                                                                         *)
(* Text is a sequence of characters; a character is a one-character string *)
(* (a character outside ASCII is written by its code point, "U+00E9").     *)
(* A Rust panic (unwrap on None, slice off a char boundary, index out of   *)
(* bounds, arithmetic overflow in a debug build) is the flag `panic`.      *)
(***************************************************************************)
EXTENDS Integers, Sequences, FiniteSets

VARIABLE
    overflow_checks \* the build of the crate: whether integer overflow checks are
                    \* compiled in (a debug build) or not (a release build)

(***************************************************************************)
(* Characters and text                                                     *)
(***************************************************************************)
\* '\0', what get_char returns past the end of the source
NUL == "U+0000"
\* a character of two UTF-8 bytes
EAcute == "U+00E9"
\* the outcome of a character read that panics
PANIC == "<panic>"

is_alpha(c) ==
    c \in {"a", "b", "c", "d", "e", "f", "g", "h", "i", "j", "k", "l", "m",
           "n", "o", "p", "q", "r", "s", "t", "u", "v", "w", "x", "y", "z",
           "A", "B", "C", "D", "E", "F", "G", "H", "I", "J", "K", "L", "M",
           "N", "O", "P", "Q", "R", "S", "T", "U", "V", "W", "X", "Y", "Z", "_"}

is_digit(c) == c \in {"0", "1", "2", "3", "4", "5", "6", "7", "8", "9"}

\* the number of UTF-8 bytes of a character
Utf8Len(c) == IF c = EAcute THEN 2 ELSE 1

\* str::len(): the length in bytes
ByteLen(s) == Len(s) + Cardinality({i \in 1..Len(s) : Utf8Len(s[i]) = 2})

\* the byte offset of the i-th character (1-based; Len(s)+1 is the end)
ByteOffset(s, i) == (i - 1) + Cardinality({j \in 1..(i - 1) : Utf8Len(s[j]) = 2})

\* &s[a..b] panics unless a <= b <= len and both lie on character boundaries
SliceOk(s, a, b) ==
    /\ a <= b
    /\ b <= ByteLen(s)
    /\ IF ByteLen(s) = Len(s) THEN TRUE
       ELSE /\ \E i \in 1..(Len(s) + 1) : ByteOffset(s, i) = a
            /\ \E i \in 1..(Len(s) + 1) : ByteOffset(s, i) = b

\* &s[a..b], byte offsets a and b, where SliceOk(s, a, b)
Slice(s, a, b) ==
    IF ByteLen(s) = Len(s) THEN SubSeq(s, a + 1, b)
    ELSE LET i == CHOOSE k \in 1..(Len(s) + 1) : ByteOffset(s, k) = a
             j == CHOOSE k \in 1..(Len(s) + 1) : ByteOffset(s, k) = b
         IN SubSeq(s, i, j - 1)

(***************************************************************************)
(* tokenizer.rs                                                            *)
(***************************************************************************)
Token_new(ty, text, line) == [ty |-> ty, text |-> text, line |-> line]
Token_new_no_text(ty, line) == Token_new(ty, <<>>, line)

Tokenizer_new(source) ==
    [current |-> 0, start |-> 0, line |-> 1, source |-> source, panic |-> FALSE]

is_at_end(t) == t.current >= ByteLen(t.source)

\* chars().nth(idx) is None, and unwrap panics, when idx is a byte offset
\* below len() that is not the index of a character
get_char(t, idx) ==
    IF idx >= ByteLen(t.source) THEN NUL
    ELSE IF idx < Len(t.source) THEN t.source[idx + 1]
    ELSE PANIC

make_token(t, ty) == Token_new_no_text(ty, t.line)
make_token_text(t, ty, text) == Token_new(ty, text, t.line)
make_error(t, error) == make_token_text(t, "Error", error)

Tokenizer_peek(t) == get_char(t, t.current)
peek_next(t) == get_char(t, t.current + 1)

\* advance(): the cursor moves, then the character is read (the character
\* returned is get_char(t, t.current) of the tokenizer before the call)
Tokenizer_advance(t) ==
    [t EXCEPT !.current = t.current + 1,
              !.panic = t.panic \/ get_char(t, t.current) = PANIC]

RECURSIVE skip_comment(_)
\* while self.peek() != '\n' && !self.is_at_end() { self.advance(); }
skip_comment(t) ==
    IF t.panic THEN t
    ELSE IF Tokenizer_peek(t) = PANIC THEN [t EXCEPT !.panic = TRUE]
    ELSE IF Tokenizer_peek(t) # "\n" /\ ~is_at_end(t) THEN skip_comment(Tokenizer_advance(t))
    ELSE t

RECURSIVE skip_whitespace(_)
skip_whitespace(t) ==
    LET character == Tokenizer_peek(t) IN
    IF t.panic THEN t
    ELSE IF character = PANIC THEN [t EXCEPT !.panic = TRUE]
    ELSE IF character \in {" ", "\r", "\t"} THEN skip_whitespace(Tokenizer_advance(t))
    ELSE IF character = "\n" THEN
        skip_whitespace(Tokenizer_advance([t EXCEPT !.line = t.line + 1]))
    ELSE IF character = "/" THEN
        IF peek_next(t) = PANIC THEN [t EXCEPT !.panic = TRUE]
        ELSE IF peek_next(t) = "/" THEN skip_whitespace(skip_comment(t))
        ELSE t
    ELSE t

\* match_char: [t |-> the tokenizer after the call, ret |-> the bool returned]
match_char(t, expected) ==
    IF is_at_end(t) THEN [t |-> t, ret |-> FALSE]
    ELSE IF t.current >= Len(t.source) THEN [t |-> [t EXCEPT !.panic = TRUE], ret |-> FALSE]
    ELSE IF t.source[t.current + 1] # expected THEN [t |-> t, ret |-> FALSE]
    ELSE [t |-> [t EXCEPT !.current = t.current + 1], ret |-> TRUE]

RECURSIVE scan_digits(_)
\* while Self::is_digit(self.peek()) { self.advance(); }
scan_digits(t) ==
    IF t.panic THEN t
    ELSE IF Tokenizer_peek(t) = PANIC THEN [t EXCEPT !.panic = TRUE]
    ELSE IF is_digit(Tokenizer_peek(t)) THEN scan_digits(Tokenizer_advance(t))
    ELSE t

RECURSIVE scan_alnum(_)
\* while Self::is_alpha(self.peek()) || Self::is_digit(self.peek()) { self.advance(); }
scan_alnum(t) ==
    IF t.panic THEN t
    ELSE IF Tokenizer_peek(t) = PANIC THEN [t EXCEPT !.panic = TRUE]
    ELSE IF is_alpha(Tokenizer_peek(t)) \/ is_digit(Tokenizer_peek(t))
         THEN scan_alnum(Tokenizer_advance(t))
    ELSE t

identifier_type(content) ==
    CASE content = <<"a", "n", "d">> -> "And"
      [] content = <<"c", "l", "a", "s", "s">> -> "Class"
      [] content = <<"e", "l", "s", "e">> -> "Else"
      [] content = <<"f", "a", "l", "s", "e">> -> "False"
      [] content = <<"f", "o", "r">> -> "For"
      [] content = <<"f", "u", "n">> -> "Fun"
      [] content = <<"i", "f">> -> "If"
      [] content = <<"n", "i", "l">> -> "Nil"
      [] content = <<"o", "r">> -> "Or"
      [] content = <<"p", "r", "i", "n", "t">> -> "Print"
      [] content = <<"r", "e", "t", "u", "r", "n">> -> "Return"
      [] content = <<"s", "u", "p", "e", "r">> -> "Super"
      [] content = <<"t", "h", "i", "s">> -> "This"
      [] content = <<"t", "r", "u", "e">> -> "True"
      [] content = <<"v", "a", "r">> -> "Var"
      [] content = <<"w", "h", "i", "l", "e">> -> "While"
      [] OTHER -> "Ident"

\* a token that is never returned: the `tok` of a call that panicked
NoToken == [ty |-> "None", text |-> <<>>, line |-> 0]

\* what a call on a tokenizer returns: the tokenizer after it and the token
Scanned(t, tok) == [t |-> t, tok |-> IF t.panic THEN NoToken ELSE tok]
Panicked(t) == Scanned([t EXCEPT !.panic = TRUE], NoToken)

\* the text of a token that ends at the cursor
Lexeme(t) == Slice(t.source, t.start, t.current)

RECURSIVE scan_string(_)
\* while self.peek() != '"' && !self.is_at_end() { count the newline; self.advance(); }
scan_string(t) ==
    IF t.panic THEN t
    ELSE IF Tokenizer_peek(t) = PANIC THEN [t EXCEPT !.panic = TRUE]
    ELSE IF Tokenizer_peek(t) # "\"" /\ ~is_at_end(t) THEN
        scan_string(Tokenizer_advance(
            IF Tokenizer_peek(t) = "\n" THEN [t EXCEPT !.line = t.line + 1] ELSE t))
    ELSE t

\* string(), `t` the tokenizer after its loop
StringToken(t) ==
    LET u == Tokenizer_advance(t) IN
    IF t.panic THEN Panicked(t)
    ELSE IF is_at_end(t) THEN
        Scanned(t, make_error(t, <<"U", "n", "t", "e", "r", "m", "i", "n", "a", "t", "e", "d",
                                   " ", "s", "t", "r", "i", "n", "g">>))
    ELSE IF u.panic \/ ~SliceOk(u.source, u.start + 1, u.current - 1) THEN Panicked(u)
    ELSE Scanned(u, Token_new("String", Slice(u.source, u.start + 1, u.current - 1), u.line))

Tokenizer_string(t) == StringToken(scan_string(t))

\* '!', '=', '<', '>': the two-character operator when '=' follows
Operator2(t, with_eq, without) ==
    LET m == match_char(t, "=") IN
    IF m.t.panic THEN Panicked(m.t)
    ELSE Scanned(m.t, make_token(m.t, IF m.ret THEN with_eq ELSE without))

\* the arm of scan_token for a digit: `t` the tokenizer after the integer digits
NumberFraction(t) ==
    IF t.panic THEN t
    ELSE IF Tokenizer_peek(t) = PANIC THEN [t EXCEPT !.panic = TRUE]
    ELSE IF Tokenizer_peek(t) = "." THEN
        IF peek_next(t) = PANIC THEN [t EXCEPT !.panic = TRUE]
        ELSE IF is_digit(peek_next(t)) THEN scan_digits(Tokenizer_advance(t))
        ELSE t
    ELSE t

\* the token whose text is the source from start to the cursor
TextToken(t, ty) ==
    IF t.panic \/ ~SliceOk(t.source, t.start, t.current) THEN Panicked(t)
    ELSE Scanned(t, make_token_text(t, ty, Lexeme(t)))

\* the arm of scan_token for a letter or '_': `t` the tokenizer after the name
IdentifierToken(t) ==
    IF t.panic \/ ~SliceOk(t.source, t.start, t.current) THEN Panicked(t)
    ELSE TextToken(t, identifier_type(Lexeme(t)))

\* format!("Unexpected character '{}'", character)
UnexpectedCharacter(character) ==
    <<"U", "n", "e", "x", "p", "e", "c", "t", "e", "d", " ",
      "c", "h", "a", "r", "a", "c", "t", "e", "r", " ", "'">> \o <<character>> \o <<"'">>

\* the match of scan_token on `character`, `t` the tokenizer after advance()
ScanCharacter(t, character) ==
    IF t.panic THEN Panicked(t)
    ELSE IF is_digit(character) THEN TextToken(NumberFraction(scan_digits(t)), "Number")
    ELSE IF is_alpha(character) THEN IdentifierToken(scan_alnum(t))
    ELSE CASE character = "(" -> Scanned(t, make_token(t, "LParen"))
           [] character = ")" -> Scanned(t, make_token(t, "RParen"))
           [] character = "{" -> Scanned(t, make_token(t, "LBrace"))
           [] character = "}" -> Scanned(t, make_token(t, "RBrace"))
           [] character = "+" -> Scanned(t, make_token(t, "Plus"))
           [] character = "-" -> Scanned(t, make_token(t, "Minus"))
           [] character = "*" -> Scanned(t, make_token(t, "Asterisk"))
           [] character = "/" -> Scanned(t, make_token(t, "Slash"))
           [] character = ";" -> Scanned(t, make_token(t, "Semicolon"))
           [] character = "!" -> Operator2(t, "BangEq", "Bang")
           [] character = "=" -> Operator2(t, "EqEq", "Eq")
           [] character = "<" -> Operator2(t, "LessEq", "Less")
           [] character = ">" -> Operator2(t, "GreaterEq", "Greater")
           [] character = "\"" -> Tokenizer_string(t)
           [] OTHER -> Scanned(t, make_error(t, UnexpectedCharacter(character)))

\* scan_token, `t` the tokenizer after skip_whitespace() and self.start = self.current
\* scan_token with the end check after the advance: the end consumes too
ScanStart_ConsumesAtEnd(t) ==
    IF t.panic THEN Panicked(t)
    ELSE IF is_at_end(t)
         THEN Scanned(Tokenizer_advance(t), make_token(t, "EndOfFile"))
    ELSE ScanCharacter(Tokenizer_advance(t), get_char(t, t.current))

ScanStart(t) ==
    IF t.panic THEN Panicked(t)
    ELSE IF is_at_end(t) THEN Scanned(t, make_token(t, "EndOfFile"))
    ELSE ScanCharacter(Tokenizer_advance(t), get_char(t, t.current))

\* self.start = self.current
MarkStart(t) == [t EXCEPT !.start = t.current]

scan_token(t) == ScanStart(MarkStart(skip_whitespace(t)))

(***************************************************************************)
(* value.rs                                                                *)
(*                                                                         *)
(* An f64 is the exact rational sgn * num / den in lowest terms, with a    *)
(* signed zero (num = 0, den = 1), the infinities (num = 1, den = 0) and   *)
(* NaN (num = 0, den = 0).  Rounding is not modelled: the model's numbers  *)
(* stay where f64 arithmetic is exact.                                     *)
(***************************************************************************)
RECURSIVE Gcd(_, _)
Gcd(a, b) == IF b = 0 THEN a ELSE Gcd(b, a % b)

F64(sgn, num, den) ==
    IF den = 0 THEN [sgn |-> IF num = 0 THEN 1 ELSE sgn, num |-> IF num = 0 THEN 0 ELSE 1, den |-> 0]
    ELSE LET g == Gcd(num, den) IN [sgn |-> sgn, num |-> num \div g, den |-> den \div g]

NaN == F64(1, 0, 0)
IsNaN(x) == x.den = 0 /\ x.num = 0
IsInf(x) == x.den = 0 /\ x.num = 1
IsZero(x) == x.den # 0 /\ x.num = 0

\* -x
F64Neg(x) == IF IsNaN(x) THEN x ELSE [x EXCEPT !.sgn = -x.sgn]

\* a + b
F64Add(a, b) ==
    IF IsNaN(a) \/ IsNaN(b) THEN NaN
    ELSE IF IsInf(a) /\ IsInf(b) THEN (IF a.sgn = b.sgn THEN a ELSE NaN)
    ELSE IF IsInf(a) THEN a
    ELSE IF IsInf(b) THEN b
    ELSE LET n == a.sgn * a.num * b.den + b.sgn * b.num * a.den
             d == a.den * b.den
         IN  IF n > 0 THEN F64(1, n, d)
             ELSE IF n < 0 THEN F64(-1, -n, d)
             ELSE F64(IF IsZero(a) /\ IsZero(b) /\ a.sgn = -1 /\ b.sgn = -1 THEN -1 ELSE 1, 0, 1)

\* a - b
F64Sub(a, b) == F64Add(a, F64Neg(b))

\* a * b
F64Mul(a, b) ==
    IF IsNaN(a) \/ IsNaN(b) THEN NaN
    ELSE IF (IsInf(a) /\ IsZero(b)) \/ (IsZero(a) /\ IsInf(b)) THEN NaN
    ELSE F64(a.sgn * b.sgn, a.num * b.num, a.den * b.den)

\* a / b
F64Div(a, b) ==
    IF IsNaN(a) \/ IsNaN(b) THEN NaN
    ELSE IF (IsInf(a) /\ IsInf(b)) \/ (IsZero(a) /\ IsZero(b)) THEN NaN
    ELSE F64(a.sgn * b.sgn, a.num * b.den, a.den * b.num)

\* a < b
F64Less(a, b) ==
    IF IsNaN(a) \/ IsNaN(b) THEN FALSE
    ELSE IF IsInf(a) \/ IsInf(b) THEN
        \/ (IsInf(a) /\ a.sgn = -1 /\ ~(IsInf(b) /\ b.sgn = -1))
        \/ (IsInf(b) /\ b.sgn = 1 /\ ~(IsInf(a) /\ a.sgn = 1))
    ELSE a.sgn * a.num * b.den < b.sgn * b.num * a.den

\* a > b
F64Greater(a, b) == F64Less(b, a)

\* a == b: NaN equals nothing, the two zeros are equal
F64Eq(a, b) ==
    IF IsNaN(a) \/ IsNaN(b) THEN FALSE
    ELSE IF IsZero(a) /\ IsZero(b) THEN TRUE
    ELSE a = b

DigitChar(d) ==
    CASE d = 0 -> "0" [] d = 1 -> "1" [] d = 2 -> "2" [] d = 3 -> "3" [] d = 4 -> "4"
      [] d = 5 -> "5" [] d = 6 -> "6" [] d = 7 -> "7" [] d = 8 -> "8" [] d = 9 -> "9"

DigitValue(c) ==
    CASE c = "0" -> 0 [] c = "1" -> 1 [] c = "2" -> 2 [] c = "3" -> 3 [] c = "4" -> 4
      [] c = "5" -> 5 [] c = "6" -> 6 [] c = "7" -> 7 [] c = "8" -> 8 [] c = "9" -> 9

RECURSIVE Decimal(_)
\* format!("{}", n) of an unsigned integer
Decimal(n) == IF n < 10 THEN <<DigitChar(n)>> ELSE Decimal(n \div 10) \o <<DigitChar(n % 10)>>

\* the fraction digits Display writes at most (the 17 significant digits of an f64)
MaxFractionDigits == 17

RECURSIVE Fraction(_, _, _)
\* the digits of rem / den after the decimal point
Fraction(rem, den, left) ==
    IF rem = 0 \/ left = 0 THEN <<>>
    ELSE <<DigitChar((rem * 10) \div den)>> \o Fraction((rem * 10) % den, den, left - 1)

\* format!("{}", v) of an f64
F64Display(x) ==
    IF IsNaN(x) THEN <<"N", "a", "N">>
    ELSE (IF x.sgn = -1 THEN <<"-">> ELSE <<>>) \o
         (IF IsInf(x) THEN <<"i", "n", "f">>
          ELSE Decimal(x.num \div x.den) \o
               (IF x.num % x.den = 0 THEN <<>>
                ELSE <<".">> \o Fraction(x.num % x.den, x.den, MaxFractionDigits)))

RECURSIVE DigitsValue(_)
\* the integer a run of decimal digits writes
DigitsValue(text) ==
    IF text = <<>> THEN 0
    ELSE 10 * DigitsValue(SubSeq(text, 1, Len(text) - 1)) + DigitValue(text[Len(text)])

RECURSIVE Pow10(_)
Pow10(n) == IF n = 0 THEN 1 ELSE 10 * Pow10(n - 1)

\* str::parse::<f64>() of a Number token's text: digits, or digits '.' digits
ParseF64(text) ==
    IF \E i \in 1..Len(text) : text[i] = "."
    THEN LET dot == CHOOSE i \in 1..Len(text) : text[i] = "."
             frac == SubSeq(text, dot + 1, Len(text))
         IN F64(1, DigitsValue(SubSeq(text, 1, dot - 1)) * Pow10(Len(frac)) + DigitsValue(frac),
                Pow10(Len(frac)))
    ELSE F64(1, DigitsValue(text), 1)

Value_Bool(b) == [tag |-> "Bool", b |-> b]
Value_Number(n) == [tag |-> "Number", n |-> n]
Value_String(s) == [tag |-> "String", s |-> s]
Value_Nil == [tag |-> "Nil"]

is_bool(v) == v.tag = "Bool"
is_number(v) == v.tag = "Number"
is_string(v) == v.tag = "String"
is_nil(v) == v.tag = "Nil"

\* equality by the representation: the same variant and the same bits
Value_eq_SameBits(a, b) == a = b

\* #[derive(PartialEq)]: the same variant and equal payloads
Value_eq(a, b) ==
    /\ a.tag = b.tag
    /\ CASE a.tag = "Bool" -> a.b = b.b
         [] a.tag = "Number" -> F64Eq(a.n, b.n)
         [] a.tag = "String" -> a.s = b.s
         [] a.tag = "Nil" -> TRUE

\* impl Display for Value
Display(v) ==
    CASE v.tag = "Bool" -> (IF v.b THEN <<"t", "r", "u", "e">> ELSE <<"f", "a", "l", "s", "e">>)
      [] v.tag = "Number" -> F64Display(v.n)
      [] v.tag = "String" -> v.s
      [] v.tag = "Nil" -> <<"n", "i", "l">>

(***************************************************************************)
(* chunk.rs                                                                *)
(***************************************************************************)
\* enum OpCode, #[repr(u8)]: the variants in the order of their declaration
OpCodeNames ==
    <<"Return", "Constant", "Nil", "True", "False", "Negate", "Add", "Subtract",
      "Multiply", "Divide", "Not", "Equal", "Greater", "Less", "Print", "Pop",
      "DefineGlobal", "GetGlobal", "SetGlobal">>

\* the discriminant of a variant, OpCode::Return as u8 being OpCode.Return
OpCode ==
    [name \in {OpCodeNames[i] : i \in 1..Len(OpCodeNames)} |->
        (CHOOSE i \in 1..Len(OpCodeNames) : OpCodeNames[i] = name) - 1]

\* u8::MAX
U8Max == 255

Byte_new(byte, line) == [byte |-> byte, line |-> line]

Chunk_new == [code |-> <<>>, value_array |-> <<>>]

Chunk_write_byte(chunk, byte) == [chunk EXCEPT !.code = Append(chunk.code, byte)]

\* ValueArray::write_value: `self.values.len() as u8 - 1` truncates the length
\* to 8 bits and then subtracts: at a length that is a multiple of 256 the
\* subtraction overflows, which panics where overflow checks are compiled in
\* (checks) and wraps to 255 where they are not.
\* [values |-> the pool after the push, ret |-> the u8 returned, panic |-> ...]
write_value(values, value, checks) ==
    LET pushed == Append(values, value)
        len8 == Len(pushed) % (U8Max + 1)
    IN  [values |-> pushed,
         ret |-> IF len8 = 0 THEN U8Max ELSE len8 - 1,
         panic |-> len8 = 0 /\ checks]

(***************************************************************************)
(* compiler.rs                                                             *)
(*                                                                         *)
(* A Parser is [tokenizer, chunk, current, previous] with the outcome of   *)
(* the call in progress: status "ok", "err" (an Err(..) is being returned  *)
(* through the `?`s, its text in error) or "panic"; ret is the Ok(..)      *)
(* value of the function that returned last.                               *)
(***************************************************************************)
\* enum Precedence, #[repr(u8)]
Precedence ==
    [None |-> 0, Assignment |-> 1, Or |-> 2, And |-> 3, Equality |-> 4, Comparison |-> 5,
     Term |-> 6, Factor |-> 7, Unary |-> 8, Call |-> 9, Primary |-> 10]

\* the messages of the compile errors
ParserMessage ==
    [variable_name |->
        <<"E", "x", "p", "e", "c", "t", "e", "d", " ", "v", "a", "r", "i", "a", "b",
          "l", "e", " ", "n", "a", "m", "e", ".">>,
     declaration_semicolon |->
        <<"E", "x", "p", "e", "c", "t", "e", "d", " ", "'", ";", "'", " ", "a", "f",
          "t", "e", "r", " ", "v", "a", "r", "i", "a", "b", "l", "e", " ", "d", "e",
          "c", "l", "a", "r", "a", "t", "i", "o", "n", ".">>,
     block |->
        <<"E", "x", "p", "e", "c", "t", " ", "'", "(", "'", " ", "a", "f", "t", "e",
          "r", " ", "b", "l", "o", "c", "k", ".">>,
     expression_semicolon |->
        <<"E", "x", "p", "e", "c", "t", " ", "'", ";", "'", " ", "a", "f", "t", "e",
          "r", " ", "e", "x", "p", "r", "e", "s", "s", "i", "o", "n", ".">>,
     value_semicolon |->
        <<"E", "x", "p", "e", "c", "t", "e", "d", " ", "'", ";", "'", " ", "a", "f",
          "t", "e", "r", " ", "v", "a", "l", "u", "e", ".">>,
     too_many_constants |->
        <<"T", "o", "o", " ", "m", "a", "n", "y", " ", "c", "o", "n", "s", "t", "a",
          "n", "t", "s", " ", "i", "n", " ", "o", "n", "e", " ", "c", "h", "u", "n",
          "k", ".">>,
     paren |->
        <<"E", "x", "p", "e", "c", "t", "e", "d", " ", "'", ")", "'", " ", "a", "f",
          "t", "e", "r", " ", "e", "x", "p", "r", "e", "s", "s", "i", "o", "n", ".">>,
     expression |->
        <<"E", "x", "p", "e", "c", "t", "e", "d", " ", "e", "x", "p", "r", "e", "s",
          "s", "i", "o", "n", ".">>]

ParseRule_new(prefix, infix, precedence) ==
    [prefix |-> prefix, infix |-> infix, precedence |-> precedence]

get_parse_rule(t) ==
    CASE t = "LParen" -> ParseRule_new("grouping", "None", Precedence.None)
      [] t = "Minus" -> ParseRule_new("unary", "binary", Precedence.Term)
      [] t = "Plus" -> ParseRule_new("None", "binary", Precedence.Term)
      [] t = "Semicolon" -> ParseRule_new("None", "None", Precedence.None)
      [] t = "Slash" -> ParseRule_new("None", "binary", Precedence.Factor)
      [] t = "Asterisk" -> ParseRule_new("None", "binary", Precedence.Factor)
      [] t = "Number" -> ParseRule_new("number", "None", Precedence.None)
      [] t = "Bang" -> ParseRule_new("unary", "None", Precedence.None)
      [] t = "BangEq" -> ParseRule_new("None", "binary", Precedence.Equality)
      [] t = "EqEq" -> ParseRule_new("None", "binary", Precedence.Equality)
      [] t = "Greater" -> ParseRule_new("None", "binary", Precedence.Comparison)
      [] t = "GreaterEq" -> ParseRule_new("None", "binary", Precedence.Comparison)
      [] t = "Less" -> ParseRule_new("None", "binary", Precedence.Comparison)
      [] t = "LessEq" -> ParseRule_new("None", "binary", Precedence.Comparison)
      [] t = "False" -> ParseRule_new("literal", "None", Precedence.None)
      [] t = "True" -> ParseRule_new("literal", "None", Precedence.None)
      [] t = "Nil" -> ParseRule_new("literal", "None", Precedence.None)
      [] t = "String" -> ParseRule_new("string", "None", Precedence.None)
      [] t = "Ident" -> ParseRule_new("variable", "None", Precedence.None)
      [] OTHER -> ParseRule_new("None", "None", Precedence.None)

Parser_new(code) ==
    [tokenizer |-> Tokenizer_new(code),
     chunk |-> Chunk_new,
     previous |-> Token_new_no_text("EndOfFile", 0),
     current |-> Token_new_no_text("EndOfFile", 0),
     status |-> "ok", error |-> <<>>, ret |-> 0]

Ok(p) == p.status = "ok"
Panic(p) == [p EXCEPT !.status = "panic"]

\* format!("[line {}] Error: ", line) followed by the message
FormatError(line, message) ==
    <<"[", "l", "i", "n", "e", " ">> \o Decimal(line) \o
    <<"]", " ", "E", "r", "r", "o", "r", ":", " ">> \o message

error_at(p, token, message) ==
    [p EXCEPT !.status = "err", !.error = FormatError(token.line, message)]

error_at_current(p, message) == error_at(p, p.current, message)
Parser_error(p, message) == error_at(p, p.previous, message)

check(p, ty) == p.current.ty = ty

\* `?`: the call F goes on when q returned Ok, and q's Err or panic is returned
Then(q, F(_)) == IF Ok(q) THEN F(q) ELSE q

\* advance(), `r` what scan_token returned
Advanced(p, r) ==
    IF r.t.panic THEN Panic([p EXCEPT !.previous = p.current, !.tokenizer = r.t])
    ELSE IF r.tok.ty = "Error"
    THEN error_at_current([p EXCEPT !.previous = p.current, !.tokenizer = r.t,
                                    !.current = r.tok], r.tok.text)
    ELSE [p EXCEPT !.previous = p.current, !.tokenizer = r.t, !.current = r.tok]

Parser_advance(p) == Advanced(p, scan_token(p.tokenizer))

\* the Ok(bool) returned is check(p, ty) of the parser before the call
match_tok(p, ty) == IF ~check(p, ty) THEN p ELSE Parser_advance(p)

\* consume going on when the required token is missing
consume_Lenient(p, ty, message) ==
    IF p.current.ty = ty THEN Parser_advance(p) ELSE p

consume(p, ty, message) ==
    IF p.current.ty = ty THEN Parser_advance(p) ELSE error_at_current(p, message)

\* write_byte taking the line of the token ahead: self.current.line
Parser_write_byte_CurrentLine(p, byte) ==
    [p EXCEPT !.chunk = Chunk_write_byte(p.chunk, Byte_new(byte, p.current.line))]

Parser_write_byte(p, byte) ==
    [p EXCEPT !.chunk = Chunk_write_byte(p.chunk, Byte_new(byte, p.previous.line))]

write_bytes(p, byte1, byte2) == Parser_write_byte(Parser_write_byte(p, byte1), byte2)

make_constant(p, value) ==
    LET w == write_value(p.chunk.value_array, value, overflow_checks)
        q == [p EXCEPT !.chunk.value_array = w.values]
        constant == w.ret
    IN  IF w.panic THEN Panic(q)
        ELSE IF constant > U8Max THEN Parser_error(q, ParserMessage.too_many_constants)
        ELSE [q EXCEPT !.ret = constant]

\* write_constant emitting the opcode without its operand byte
write_constant_OpcodeOnly(p, value) ==
    Then(make_constant(p, value), LAMBDA q : Parser_write_byte(q, OpCode.Constant))

write_constant(p, value) ==
    Then(make_constant(p, value), LAMBDA q : write_bytes(q, OpCode.Constant, q.ret))

identifier_constant(p, identifier_token) ==
    make_constant(p, Value_String(identifier_token.text))

parse_variable(p, error_msg) ==
    Then(consume(p, "Ident", error_msg), LAMBDA q : identifier_constant(q, q.previous))

define_variable(p, global) == write_bytes(p, OpCode.DefineGlobal, global)

\* end_compilation emitting nothing
end_compilation_NoReturn(p) == p

end_compilation(p) == Parser_write_byte(p, OpCode.Return)

number(p, can_assign) ==
    IF p.previous.ty = "Number"
    THEN write_constant(p, Value_Number(ParseF64(p.previous.text)))
    ELSE Panic(p)

literal(p, can_assign) ==
    CASE p.previous.ty = "False" -> Parser_write_byte(p, OpCode.False)
      [] p.previous.ty = "True" -> Parser_write_byte(p, OpCode.True)
      [] p.previous.ty = "Nil" -> Parser_write_byte(p, OpCode.Nil)
      [] OTHER -> Panic(p)

Parser_string(p, can_assign) ==
    IF p.previous.ty = "String"
    THEN write_constant(p, Value_String(p.previous.text))
    ELSE Panic(p)

\* the match of unary on the operator's token type
UnaryOp(p, op_type) ==
    CASE op_type = "Minus" -> Parser_write_byte(p, OpCode.Negate)
      [] op_type = "Bang" -> Parser_write_byte(p, OpCode.Not)
      [] OTHER -> Panic(p)

\* the match of binary on the operator's token type
BinaryOp(p, op_type) ==
    CASE op_type = "Plus" -> Parser_write_byte(p, OpCode.Add)
      [] op_type = "Minus" -> Parser_write_byte(p, OpCode.Subtract)
      [] op_type = "Asterisk" -> Parser_write_byte(p, OpCode.Multiply)
      [] op_type = "Slash" -> Parser_write_byte(p, OpCode.Divide)
      [] op_type = "BangEq" -> write_bytes(p, OpCode.Equal, OpCode.Not)
      [] op_type = "EqEq" -> Parser_write_byte(p, OpCode.Equal)
      [] op_type = "Greater" -> Parser_write_byte(p, OpCode.Greater)
      [] op_type = "GreaterEq" -> write_bytes(p, OpCode.Less, OpCode.Not)
      [] op_type = "Less" -> Parser_write_byte(p, OpCode.Less)
      [] op_type = "LessEq" -> write_bytes(p, OpCode.Greater, OpCode.Not)
      [] OTHER -> Panic(p)

\* the right operand parsed at the operator's own precedence
BinaryOperand_SameLevel(op_type) == get_parse_rule(op_type).precedence

\* the precedence binary parses its right operand at
BinaryOperand(op_type) == get_parse_rule(op_type).precedence + 1

\* let can_assign = precedence <= Precedence::Assignment as u8
CanAssign(precedence) == precedence <= Precedence.Assignment

RECURSIVE declaration(_), var_declaration(_), statement(_), block(_), BlockLoop(_),
          expression_statement(_), print_statement(_), expression(_),
          parse_precedence(_, _), InfixLoop(_, _, _), ParseFn(_, _, _),
          unary(_, _), binary(_, _), grouping(_, _), variable(_, _),
          named_variable(_, _, _)

expression(p) == parse_precedence(p, Precedence.Assignment)

\* the call of a ParseFn of the rule table
ParseFn(fn, p, can_assign) ==
    CASE fn = "grouping" -> grouping(p, can_assign)
      [] fn = "unary" -> unary(p, can_assign)
      [] fn = "binary" -> binary(p, can_assign)
      [] fn = "number" -> number(p, can_assign)
      [] fn = "literal" -> literal(p, can_assign)
      [] fn = "string" -> Parser_string(p, can_assign)
      [] fn = "variable" -> variable(p, can_assign)
      [] OTHER -> Panic(p)

\* while precedence <= rule(current).precedence { advance; infix_rule.unwrap()(..) }
InfixLoop(p, precedence, can_assign) ==
    IF precedence <= get_parse_rule(p.current.ty).precedence
    THEN Then(Parser_advance(p), LAMBDA p1 :
         Then(ParseFn(get_parse_rule(p1.previous.ty).infix, p1, can_assign), LAMBDA p2 :
         InfixLoop(p2, precedence, can_assign)))
    ELSE p

parse_precedence(p, precedence) ==
    Then(Parser_advance(p), LAMBDA p1 :
    IF get_parse_rule(p1.previous.ty).prefix = "None"
    THEN Parser_error(p1, ParserMessage.expression)
    ELSE Then(ParseFn(get_parse_rule(p1.previous.ty).prefix, p1, CanAssign(precedence)),
              LAMBDA p2 : InfixLoop(p2, precedence, CanAssign(precedence))))

unary(p, can_assign) ==
    Then(parse_precedence(p, Precedence.Unary), LAMBDA q : UnaryOp(q, p.previous.ty))

binary(p, can_assign) ==
    Then(parse_precedence(p, BinaryOperand(p.previous.ty)),
         LAMBDA q : BinaryOp(q, p.previous.ty))

grouping(p, can_assign) ==
    Then(expression(p), LAMBDA q : consume(q, "RParen", ParserMessage.paren))

\* named_variable taking `=` at every precedence: can_assign not consulted
named_variable_AnyLevel(p, name, can_assign) ==
    Then(identifier_constant(p, name), LAMBDA p1 :
    IF check(p1, "Eq")
    THEN Then(match_tok(p1, "Eq"), LAMBDA p2 :
         Then(expression(p2), LAMBDA p3 : write_bytes(p3, OpCode.SetGlobal, p1.ret)))
    ELSE write_bytes(p1, OpCode.GetGlobal, p1.ret))

named_variable(p, name, can_assign) ==
    Then(identifier_constant(p, name), LAMBDA p1 :
    IF can_assign /\ check(p1, "Eq")
    THEN Then(match_tok(p1, "Eq"), LAMBDA p2 :
         Then(expression(p2), LAMBDA p3 : write_bytes(p3, OpCode.SetGlobal, p1.ret)))
    ELSE write_bytes(p1, OpCode.GetGlobal, p1.ret))

variable(p, can_assign) == named_variable(p, p.previous, can_assign)

var_declaration(p) ==
    Then(parse_variable(p, ParserMessage.variable_name), LAMBDA p1 :
    Then(IF check(p1, "Eq") THEN Then(match_tok(p1, "Eq"), expression)
         ELSE Parser_write_byte(p1, OpCode.Nil), LAMBDA p2 :
    Then(consume(p2, "Semicolon", ParserMessage.declaration_semicolon), LAMBDA p3 :
    define_variable(p3, p1.ret))))

print_statement(p) ==
    Then(expression(p), LAMBDA p1 :
    Then(consume(p1, "Semicolon", ParserMessage.value_semicolon), LAMBDA p2 :
    Parser_write_byte(p2, OpCode.Print)))

\* expression_statement leaving the expression's value: no Pop emitted
expression_statement_KeepsValue(p) ==
    Then(expression(p), LAMBDA p1 :
         consume(p1, "Semicolon", ParserMessage.expression_semicolon))

expression_statement(p) ==
    Then(expression(p), LAMBDA p1 :
    Then(consume(p1, "Semicolon", ParserMessage.expression_semicolon), LAMBDA p2 :
    Parser_write_byte(p2, OpCode.Pop)))

\* while !self.check(RBrace) && !self.check(EndOfFile) { self.declaration()?; }
BlockLoop(p) ==
    IF ~check(p, "RBrace") /\ ~check(p, "EndOfFile")
    THEN Then(declaration(p), BlockLoop)
    ELSE p

\* block compiling its declarations into a chunk of its own, dropped at `}`
block_OwnChunk(p) ==
    Then(BlockLoop(p), LAMBDA q :
         consume([q EXCEPT !.chunk = p.chunk], "RBrace", ParserMessage.block))

block(p) == Then(BlockLoop(p), LAMBDA q : consume(q, "RBrace", ParserMessage.block))

statement(p) ==
    IF check(p, "Print") THEN Then(match_tok(p, "Print"), print_statement)
    ELSE IF check(p, "LBrace") THEN Then(match_tok(p, "LBrace"), block)
    ELSE expression_statement(p)

declaration(p) ==
    IF check(p, "Var") THEN Then(match_tok(p, "Var"), var_declaration)
    ELSE statement(p)

(***************************************************************************)
(* vm.rs                                                                   *)
(*                                                                         *)
(* A VM is [chunk, ip, current_instruction, stack, stack_top, globals];    *)
(* status and error are the outcome of the interpret call in progress:     *)
(* "running", "ok" (Ok(())), "err" (Err(error)) or "panic"; a VM that has  *)
(* not been run is "new".  stack[i + 1] is the slot of index i.            *)
(***************************************************************************)
\* the length of the stack array
StackMax == 256

\* the messages of the runtime errors
VMMessage ==
    [operands_numbers |->
        <<"O", "p", "e", "r", "a", "n", "d", "s", " ", "m", "u", "s", "t", " ", "b",
          "e", " ", "n", "u", "m", "b", "e", "r", "s", ".">>,
     operand_number |->
        <<"O", "p", "e", "r", "a", "n", "d", "(", "s", ")", " ", "m", "u", "s", "t",
          " ", "b", "e", " ", "a", " ", "n", "u", "m", "b", "e", "r", ".">>,
     invalid_operands |->
        <<"I", "n", "v", "a", "l", "i", "d", " ", "o", "p", "e", "r", "a", "n", "d",
          "s", ".">>,
     undefined_variable |->
        <<"U", "n", "d", "e", "f", "i", "n", "e", "d", " ", "v", "a", "r", "i", "a",
          "b", "l", "e", " ">>]

VM_new ==
    [chunk |-> Chunk_new,
     ip |-> 0,
     current_instruction |-> Byte_new(0, 0),
     stack |-> [i \in 1..StackMax |-> Value_Nil],
     stack_top |-> 0,
     globals |-> <<>>,
     status |-> "new", error |-> <<>>]

VM_panic(vm) == [vm EXCEPT !.status = "panic"]
Running(vm) == vm.status = "running"

\* HashMap::contains_key, get and insert on the global table
contains_key(globals, name) == name \in DOMAIN globals
insert(globals, name, value) ==
    [n \in DOMAIN globals \cup {name} |-> IF n = name THEN value ELSE globals[n]]

\* the value returned is vm.stack[vm.stack_top] of the VM after the call
\* (stack_top - 1 underflows at 0: a panic, or a wrap and an index out of bounds)
pop_value(vm) ==
    IF vm.stack_top = 0 THEN VM_panic(vm)
    ELSE [vm EXCEPT !.stack_top = vm.stack_top - 1]

Popped(vm) == vm.stack[vm.stack_top + 1]

\* push_value without the bounds check of the index: at stack_top = 256 the
\* value lands on the last slot
push_value_Unchecked(vm, value) ==
    IF vm.stack_top >= StackMax THEN [vm EXCEPT !.stack[StackMax] = value]
    ELSE [vm EXCEPT !.stack[vm.stack_top + 1] = value, !.stack_top = vm.stack_top + 1]

\* self.stack[self.stack_top] = value is out of bounds at stack_top = 256
push_value(vm, value) ==
    IF vm.stack_top >= StackMax THEN VM_panic(vm)
    ELSE [vm EXCEPT !.stack[vm.stack_top + 1] = value, !.stack_top = vm.stack_top + 1]

\* peek(distance) panics when stack_top - 1 - distance underflows
PeekPanics(vm, distance) == vm.stack_top - 1 - distance < 0
VM_peek(vm, distance) == vm.stack[vm.stack_top - 1 - distance + 1]

\* the byte read is vm.chunk.code[vm.ip + 1] of the VM before the call
read_byte(vm) ==
    IF vm.ip >= Len(vm.chunk.code) THEN VM_panic(vm)
    ELSE [vm EXCEPT !.ip = vm.ip + 1]

ByteRead(vm) == vm.chunk.code[vm.ip + 1]

\* read_constant panics when the operand is no index of the constant pool;
\* the constant read is ConstantRead(vm) of the VM before the call
read_constant(vm) ==
    LET v == read_byte(vm) IN
    IF ~Running(v) THEN v
    ELSE IF ByteRead(vm).byte >= Len(vm.chunk.value_array) THEN VM_panic(v)
    ELSE v

ConstantRead(vm) == vm.chunk.value_array[ByteRead(vm).byte + 1]

\* read_string: the display text of the constant, read as by read_constant
StringRead(vm) == Display(ConstantRead(vm))

\* is_falsey counting the number 0 and the empty string as false too
is_falsey_ZeroAndEmpty(value) ==
    \/ is_nil(value)
    \/ (is_bool(value) /\ ~value.b)
    \/ (is_number(value) /\ IsZero(value.n))
    \/ (is_string(value) /\ value.s = <<>>)

is_falsey(value) == is_nil(value) \/ (is_bool(value) /\ ~value.b)

VM_error(vm, message) ==
    [vm EXCEPT !.status = "err",
               !.error = FormatError(vm.current_instruction.line, message)]

\* pop b, pop a, push value: the tail of binop!, of Add and of concat
Replace2(vm, value) ==
    LET v1 == pop_value(vm) IN
    IF ~Running(v1) THEN v1 ELSE
    LET v2 == pop_value(v1) IN
    IF ~Running(v2) THEN v2 ELSE push_value(v2, value)

concat(vm) ==
    Replace2(vm, Value_String(VM_peek(vm, 1).s \o VM_peek(vm, 0).s))

\* binop! popping its operands before it checks them
binop_PopsFirst(vm, result) ==
    IF PeekPanics(vm, 1) THEN VM_panic(vm)
    ELSE IF is_number(VM_peek(vm, 0)) /\ is_number(VM_peek(vm, 1)) THEN Replace2(vm, result)
    ELSE VM_error(pop_value(pop_value(vm)), VMMessage.operands_numbers)

\* binop! yielding nil, without an error, for operands that are not numbers
binop_NilForOthers(vm, result) ==
    IF PeekPanics(vm, 1) THEN VM_panic(vm)
    ELSE IF is_number(VM_peek(vm, 0)) /\ is_number(VM_peek(vm, 1)) THEN Replace2(vm, result)
    ELSE Replace2(vm, Value_Nil)

\* binop!(value_type, op), `result` the value of a op b
binop(vm, result) ==
    IF PeekPanics(vm, 0) THEN VM_panic(vm)
    ELSE IF ~is_number(VM_peek(vm, 0)) THEN VM_error(vm, VMMessage.operands_numbers)
    ELSE IF PeekPanics(vm, 1) THEN VM_panic(vm)
    ELSE IF ~is_number(VM_peek(vm, 1)) THEN VM_error(vm, VMMessage.operands_numbers)
    ELSE Replace2(vm, result)

\* the operands a and b of a binary instruction
OperandA(vm) == VM_peek(vm, 1)
OperandB(vm) == VM_peek(vm, 0)

Run_Negate(vm) ==
    IF PeekPanics(vm, 0) THEN VM_panic(vm)
    ELSE IF ~is_number(VM_peek(vm, 0)) THEN VM_error(vm, VMMessage.operand_number)
    ELSE LET v == pop_value(vm) IN
         IF ~Running(v) THEN v ELSE push_value(v, Value_Number(F64Neg(Popped(v).n)))

\* Add writing a number operand out when the other operand is a string
Run_Add_Coerces(vm) ==
    IF PeekPanics(vm, 1) THEN VM_panic(vm)
    ELSE IF is_number(OperandA(vm)) /\ is_number(OperandB(vm))
         THEN Replace2(vm, Value_Number(F64Add(OperandA(vm).n, OperandB(vm).n)))
    ELSE IF is_string(OperandA(vm)) /\ (is_string(OperandB(vm)) \/ is_number(OperandB(vm)))
         THEN Replace2(vm, Value_String(OperandA(vm).s \o Display(OperandB(vm))))
    ELSE VM_error(vm, VMMessage.invalid_operands)

Run_Add(vm) ==
    IF PeekPanics(vm, 0) THEN VM_panic(vm)
    ELSE IF is_string(VM_peek(vm, 0)) THEN
        IF PeekPanics(vm, 1) THEN VM_panic(vm)
        ELSE IF is_string(VM_peek(vm, 1)) THEN concat(vm)
        ELSE VM_error(vm, VMMessage.invalid_operands)
    ELSE IF is_number(VM_peek(vm, 0)) THEN
        IF PeekPanics(vm, 1) THEN VM_panic(vm)
        ELSE IF is_number(VM_peek(vm, 1))
             THEN Replace2(vm, Value_Number(F64Add(OperandA(vm).n, OperandB(vm).n)))
        ELSE VM_error(vm, VMMessage.invalid_operands)
    ELSE VM_error(vm, VMMessage.invalid_operands)

Run_Not(vm) ==
    LET v == pop_value(vm) IN
    IF ~Running(v) THEN v ELSE push_value(v, Value_Bool(is_falsey(Popped(v))))

Run_Equal(vm) ==
    LET v1 == pop_value(vm) IN
    IF ~Running(v1) THEN v1 ELSE
    LET v2 == pop_value(v1) IN
    IF ~Running(v2) THEN v2
    ELSE push_value(v2, Value_Bool(Value_eq(Popped(v2), Popped(v1))))

Run_Constant(vm) ==
    LET v == read_constant(vm) IN
    IF ~Running(v) THEN v ELSE push_value(v, ConstantRead(vm))

\* the sink's answer to a call: Ok(()) or Err(SinkError)
SinkError == <<"s", "i", "n", "k">>
SinkResults == {"ok", "err"}

\* Print with the sink's answer dropped: let _ = (self.print_fn)(..)
Run_Print_IgnoresSink(vm, out) == pop_value(vm)

\* Print: `out` is what the sink answers
Run_Print(vm, out) ==
    LET v == pop_value(vm) IN
    IF ~Running(v) THEN v
    ELSE IF out = "err" THEN [v EXCEPT !.status = "err", !.error = SinkError]
    ELSE v

\* the text handed to the sink without the newline: format!("{}", popped)
PrintText_NoNewline(vm) == Display(Popped(pop_value(vm)))

\* the text Print hands to the sink: format!("{}\n", popped)
PrintText(vm) == Display(Popped(pop_value(vm))) \o <<"\n">>

\* DefineGlobal keeping the binding of a name that is bound already
Run_DefineGlobal_KeepsFirst(vm) ==
    LET v == read_constant(vm) IN
    IF ~Running(v) THEN v
    ELSE IF PeekPanics(v, 0) THEN VM_panic(v)
    ELSE IF contains_key(v.globals, StringRead(vm)) THEN pop_value(v)
    ELSE pop_value([v EXCEPT !.globals = insert(v.globals, StringRead(vm), VM_peek(v, 0))])

Run_DefineGlobal(vm) ==
    LET v == read_constant(vm) IN
    IF ~Running(v) THEN v
    ELSE IF PeekPanics(v, 0) THEN VM_panic(v)
    ELSE pop_value([v EXCEPT !.globals = insert(v.globals, StringRead(vm), VM_peek(v, 0))])

\* GetGlobal reading an unbound name as nil
Run_GetGlobal_NilWhenUnbound(vm) ==
    LET v == read_constant(vm) IN
    IF ~Running(v) THEN v
    ELSE IF ~contains_key(v.globals, StringRead(vm)) THEN push_value(v, Value_Nil)
    ELSE push_value(v, v.globals[StringRead(vm)])

Run_GetGlobal(vm) ==
    LET v == read_constant(vm) IN
    IF ~Running(v) THEN v
    ELSE IF ~contains_key(v.globals, StringRead(vm))
         THEN VM_error(v, VMMessage.undefined_variable \o StringRead(vm))
    ELSE push_value(v, v.globals[StringRead(vm)])

\* SetGlobal popping the value it assigned
Run_SetGlobal_Pops(vm) ==
    LET v == read_constant(vm) IN
    IF ~Running(v) THEN v
    ELSE IF ~contains_key(v.globals, StringRead(vm))
         THEN VM_error(v, VMMessage.undefined_variable \o StringRead(vm))
    ELSE IF PeekPanics(v, 0) THEN VM_panic(v)
    ELSE pop_value([v EXCEPT !.globals[StringRead(vm)] = VM_peek(v, 0)])

Run_SetGlobal(vm) ==
    LET v == read_constant(vm) IN
    IF ~Running(v) THEN v
    ELSE IF ~contains_key(v.globals, StringRead(vm))
         THEN VM_error(v, VMMessage.undefined_variable \o StringRead(vm))
    ELSE IF PeekPanics(v, 0) THEN VM_panic(v)
    ELSE [v EXCEPT !.globals[StringRead(vm)] = VM_peek(v, 0)]

\* OpCode::try_from(byte): the bytes that are opcodes
OpCodes == OpCode.Return..OpCode.SetGlobal

\* the match of run on the opcode, `v` the VM after the opcode's byte was read
Dispatch(v, out) ==
    LET op == v.current_instruction.byte IN
    CASE op = OpCode.Return -> [v EXCEPT !.status = "ok"]
      [] op = OpCode.Constant -> Run_Constant(v)
      [] op = OpCode.Negate -> Run_Negate(v)
      [] op = OpCode.Add -> Run_Add(v)
      [] op = OpCode.Subtract ->
             binop(v, Value_Number(F64Sub(OperandA(v).n, OperandB(v).n)))
      [] op = OpCode.Multiply ->
             binop(v, Value_Number(F64Mul(OperandA(v).n, OperandB(v).n)))
      [] op = OpCode.Divide ->
             binop(v, Value_Number(F64Div(OperandA(v).n, OperandB(v).n)))
      [] op = OpCode.Nil -> push_value(v, Value_Nil)
      [] op = OpCode.True -> push_value(v, Value_Bool(TRUE))
      [] op = OpCode.False -> push_value(v, Value_Bool(FALSE))
      [] op = OpCode.Not -> Run_Not(v)
      [] op = OpCode.Equal -> Run_Equal(v)
      [] op = OpCode.Greater -> binop(v, Value_Bool(F64Greater(OperandA(v).n, OperandB(v).n)))
      [] op = OpCode.Less -> binop(v, Value_Bool(F64Less(OperandA(v).n, OperandB(v).n)))
      [] op = OpCode.Print -> Run_Print(v, out)
      [] op = OpCode.Pop -> pop_value(v)
      [] op = OpCode.DefineGlobal -> Run_DefineGlobal(v)
      [] op = OpCode.GetGlobal -> Run_GetGlobal(v)
      [] op = OpCode.SetGlobal -> Run_SetGlobal(v)
      [] OTHER -> VM_panic(v)

\* one iteration of the loop of run: fetch, decode, execute
run_iteration(vm, out) ==
    LET v == read_byte(vm) IN
    IF ~Running(v) THEN v
    ELSE Dispatch([v EXCEPT !.current_instruction = ByteRead(vm)], out)

\* whether the iteration calls the sink: a Print whose pop does not panic
CallsSink(vm) ==
    /\ vm.ip < Len(vm.chunk.code)
    /\ ByteRead(vm).byte = OpCode.Print
    /\ vm.stack_top > 0

\* interpret(chunk) starting from an empty global table
interpret_FreshGlobals(vm, chunk) ==
    [vm EXCEPT !.chunk = chunk, !.ip = 0, !.status = "running", !.error = <<>>,
               !.globals = <<>>]

\* interpret(chunk), up to the first iteration of run
interpret(vm, chunk) ==
    [vm EXCEPT !.chunk = chunk, !.ip = 0, !.status = "running", !.error = <<>>]

(***************************************************************************)
(* Bounded text                                                            *)
(***************************************************************************)
\* all sequences over S of length at most n
SeqsUpTo(S, n) == UNION {[1..k -> S] : k \in 0..n}

RECURSIVE Lines(_)
\* the texts of a sequence, one per line
Lines(texts) ==
    IF texts = <<>> THEN <<>>
    ELSE IF Len(texts) = 1 THEN texts[1]
    ELSE texts[1] \o <<"\n">> \o Lines(Tail(texts))

\* the statements programs are made of: statements that run, statements that
\* fail at run time, statements that span lines, statements that do not compile
\* var x = 1;
StVarX == <<"v", "a", "r", " ", "x", " ", "=", " ", "1", ";">>
\* x = 2;
StAssignX == <<"x", " ", "=", " ", "2", ";">>
\* print x;
StPrintX == <<"p", "r", "i", "n", "t", " ", "x", ";">>
\* print x = 5;
StPrintAssignX == <<"p", "r", "i", "n", "t", " ", "x", " ", "=", " ", "5", ";">>
\* print y;
StPrintY == <<"p", "r", "i", "n", "t", " ", "y", ";">>
\* y = 1;
StAssignY == <<"y", " ", "=", " ", "1", ";">>
\* print "a" + 1;
StAddMixed ==
    <<"p", "r", "i", "n", "t", " ", "\"", "a", "\"", " ", "+", " ", "1", ";">>
\* print -nil;
StNegateNil == <<"p", "r", "i", "n", "t", " ", "-", "n", "i", "l", ";">>
\* print 1 < "a";
StLessMixed ==
    <<"p", "r", "i", "n", "t", " ", "1", " ", "<", " ", "\"", "a", "\"", ";">>
\* { var y; }
StBlockVarY == <<"{", " ", "v", "a", "r", " ", "y", ";", " ", "}">>
\* print 1 +\nnil;
StAddSplit ==
    <<"p", "r", "i", "n", "t", " ", "1", " ", "+", "\n", "n", "i", "l", ";">>
\* print -\nnil\n;
StNegateSplit ==
    <<"p", "r", "i", "n", "t", " ", "-", "\n", "n", "i", "l", "\n", ";">>
\* var z\n= 1\n;
StVarSplit == <<"v", "a", "r", " ", "z", "\n", "=", " ", "1", "\n", ";">>
\* y\n= 1;
StAssignSplit == <<"y", "\n", "=", " ", "1", ";">>
\* print ;
StPrintNothing == <<"p", "r", "i", "n", "t", " ", ";">>
\* var 1;
StVarNumber == <<"v", "a", "r", " ", "1", ";">>
\* print 1
StPrintUnended == <<"p", "r", "i", "n", "t", " ", "1">>
\* (1;
StParenUnended == <<"(", "1", ";">>
\* { print 1;
StBlockUnended == <<"{", " ", "p", "r", "i", "n", "t", " ", "1", ";">>
\* print @;
StUnexpected == <<"p", "r", "i", "n", "t", " ", "@", ";">>
\* print "a;
StStringUnended == <<"p", "r", "i", "n", "t", " ", "\"", "a", ";">>

Statements ==
    {StVarX, StAssignX, StPrintX, StPrintAssignX, StPrintY, StAssignY, StAddMixed,
     StNegateNil, StLessMixed, StBlockVarY, StAddSplit, StNegateSplit, StVarSplit,
     StAssignSplit, StPrintNothing, StVarNumber, StPrintUnended, StParenUnended,
     StBlockUnended, StUnexpected, StStringUnended}

\* the program of the sample entry point and the programs of the documented
\* scenarios
\* var a = 3; var b = 4 + 2 * a; print b;
ExPrecedence ==
    <<"v", "a", "r", " ", "a", " ", "=", " ", "3", ";", " ", "v", "a", "r", " ",
      "b", " ", "=", " ", "4", " ", "+", " ", "2", " ", "*", " ", "a", ";", " ",
      "p", "r", "i", "n", "t", " ", "b", ";">>
\* \n        var a = 3;\n        var b = 4 + 2 * a;\n        print b;\n        b = 4;\n        print b;\n    
ExMain ==
    <<"\n", " ", " ", " ", " ", " ", " ", " ", " ", "v", "a", "r", " ", "a", " ",
      "=", " ", "3", ";", "\n", " ", " ", " ", " ", " ", " ", " ", " ", "v", "a",
      "r", " ", "b", " ", "=", " ", "4", " ", "+", " ", "2", " ", "*", " ", "a",
      ";", "\n", " ", " ", " ", " ", " ", " ", " ", " ", "p", "r", "i", "n", "t",
      " ", "b", ";", "\n", " ", " ", " ", " ", " ", " ", " ", " ", "b", " ", "=",
      " ", "4", ";", "\n", " ", " ", " ", " ", " ", " ", " ", " ", "p", "r", "i",
      "n", "t", " ", "b", ";", "\n", " ", " ", " ", " ">>
\* print "a" + "b";
ExConcat ==
    <<"p", "r", "i", "n", "t", " ", "\"", "a", "\"", " ", "+", " ", "\"", "b", "\"",
      ";">>
\* print !nil;\nprint !0;
ExFalsiness ==
    <<"p", "r", "i", "n", "t", " ", "!", "n", "i", "l", ";", "\n", "p", "r", "i",
      "n", "t", " ", "!", "0", ";">>
\* print 1 == "1";
ExEquality ==
    <<"p", "r", "i", "n", "t", " ", "1", " ", "=", "=", " ", "\"", "1", "\"", ";">>
\* var x = 1; x = 2; print x;
ExReassign ==
    <<"v", "a", "r", " ", "x", " ", "=", " ", "1", ";", " ", "x", " ", "=", " ",
      "2", ";", " ", "p", "r", "i", "n", "t", " ", "x", ";">>
\* var x = 1; print x = 5;
ExAssignValue ==
    <<"v", "a", "r", " ", "x", " ", "=", " ", "1", ";", " ", "p", "r", "i", "n",
      "t", " ", "x", " ", "=", " ", "5", ";">>

\* var x = 1; print x; var x = "a"; print x; var x; print x;
ExRedeclare ==
    <<"v", "a", "r", " ", "x", " ", "=", " ", "1", ";", " ", "p", "r", "i", "n",
      "t", " ", "x", ";", " ", "v", "a", "r", " ", "x", " ", "=", " ", "\"", "a",
      "\"", ";", " ", "p", "r", "i", "n", "t", " ", "x", ";", " ", "v", "a", "r",
      " ", "x", ";", " ", "p", "r", "i", "n", "t", " ", "x", ";">>

Examples ==
    {ExPrecedence, ExMain, ExConcat, ExFalsiness, ExEquality, ExReassign,
     ExAssignValue, ExRedeclare}

\* the number of statements of a program
MaxStmts == 2

\* a program of one more number literal than a u8 counts: 1;1;1; ...
ManyConstants ==
    [i \in 1..(2 * (U8Max + 2)) |-> IF i % 2 = 1 THEN "1" ELSE ";"]

\* the depth of the blocks around a declaration
MaxDepth == 3

RECURSIVE Nested(_, _)
\* a text inside n blocks
Nested(text, n) ==
    IF n = 0 THEN text ELSE <<"{", " ">> \o Nested(text, n - 1) \o <<" ", "}">>

\* `var y = 1;` inside n blocks, and after them print y; y = 3; print y;
BlockProgram(n) ==
    Nested(<<"v", "a", "r", " ", "y", " ", "=", " ", "1", ";">>, n) \o
    <<" ", "p", "r", "i", "n", "t", " ", "y", ";", " ", "y", " ", "=", " ", "3", ";",
      " ", "p", "r", "i", "n", "t", " ", "y", ";">>

Programs ==
    {Lines(f) : f \in SeqsUpTo(Statements, MaxStmts)} \cup Examples
        \cup {ManyConstants} \cup {BlockProgram(n) : n \in 0..MaxDepth}

\* the programs compiled for a VM that has run already
Followups == {StPrintX, StAssignX, StVarX}

\* the number of interpret calls on one VM
MaxCalls == 2

(***************************************************************************)
(* State                                                                   *)
(***************************************************************************)
VARIABLES
    tokenizer,  \* a Tokenizer used on its own
    tokens,     \* the tokens its scan_token calls returned, in order
    parser,     \* the Parser
    stage,      \* where its parse() is: "new", "declarations", "returned",
                \* and "interpreted" once the chunk returned was handed to the VM
    vm,         \* the VM
    sink,       \* the calls of the print sink so far: the text received, the
                \* result answered, the interpret call that made it
    calls,      \* the number of interpret calls so far
    second      \* a second Tokenizer and a second Parser, made for the source
                \* of the first ones: [tokenizer, tokens, parser, stage]

vars == <<overflow_checks, tokenizer, tokens, parser, stage, vm, sink, calls, second>>

\* the characters of the sources the tokenizer is run on
TokChars == {"i", "f", "1", ".", "\"", "\n", "/", " ", "=", EAcute}
MaxSrcLen == 4
\* the scan_token calls on one tokenizer: enough to go on after the end
MaxTokens == MaxSrcLen + 2

\* no second Tokenizer and no second Parser yet
NoSecond ==
    [tokenizer |-> Tokenizer_new(<<>>), tokens |-> <<>>, parser |-> Parser_new(<<>>),
     stage |-> "none"]

Idle ==
    /\ parser = Parser_new(<<>>)
    /\ stage = "new"
    /\ vm = VM_new
    /\ sink = <<>>
    /\ calls = 0
    /\ second = NoSecond

TokInit ==
    /\ tokenizer \in {Tokenizer_new(s) : s \in SeqsUpTo(TokChars, MaxSrcLen)}
    /\ tokens = <<>>
    /\ overflow_checks \in BOOLEAN
    /\ Idle

\* one call of scan_token() on the tokenizer
ScanToken ==
    /\ ~tokenizer.panic
    /\ Len(tokens) < MaxTokens
    /\ LET r == scan_token(tokenizer) IN
       /\ tokenizer' = r.t
       /\ tokens' = Append(tokens, r.tok)
    /\ UNCHANGED <<overflow_checks, parser, stage, vm, sink, calls, second>>

TokNext == ScanToken
TokSpec == TokInit /\ [][TokNext]_vars

Init ==
    /\ tokenizer = Tokenizer_new(<<>>)
    /\ tokens = <<>>
    /\ overflow_checks \in BOOLEAN
    /\ parser \in {Parser_new(s) : s \in Programs}
    /\ stage = "new"
    /\ vm = VM_new
    /\ sink = <<>>
    /\ calls = 0
    /\ second = NoSecond

\* where parse() goes after a step that left the parser p
After(p) == IF Ok(p) THEN "declarations" ELSE "returned"

\* parse(): self.chunk = Chunk::new(); self.advance()?;
ParseStart ==
    /\ stage = "new"
    /\ parser' = Parser_advance([parser EXCEPT !.chunk = Chunk_new])
    /\ stage' = After(parser')
    /\ UNCHANGED <<tokenizer, tokens, overflow_checks, vm, sink, calls, second>>

\* parse(): one iteration of while !self.match_tok(EndOfFile)? { self.declaration()?; }
ParseDeclaration ==
    /\ stage = "declarations"
    /\ ~check(parser, "EndOfFile")
    /\ parser' = declaration(parser)
    /\ stage' = After(parser')
    /\ UNCHANGED <<tokenizer, tokens, overflow_checks, vm, sink, calls, second>>

\* parse(): match_tok(EndOfFile) is true; self.end_compilation()?; Ok(self.chunk.clone())
ParseEnd ==
    /\ stage = "declarations"
    /\ check(parser, "EndOfFile")
    /\ parser' = Then(match_tok(parser, "EndOfFile"), end_compilation)
    /\ stage' = "returned"
    /\ UNCHANGED <<tokenizer, tokens, overflow_checks, vm, sink, calls, second>>

\* parse() returned Ok(chunk)
Compiled == stage = "returned" /\ Ok(parser)

\* vm.interpret(chunk) with the chunk parse() returned, up to the loop of run
Interpret ==
    /\ Compiled
    /\ vm.status \in {"new", "ok", "err"}
    /\ vm' = interpret(vm, parser.chunk)
    /\ stage' = "interpreted"
    /\ calls' = calls + 1
    /\ UNCHANGED <<tokenizer, tokens, overflow_checks, parser, sink, second>>

\* one iteration of the loop of run; a Print calls the sink, which answers `out`
Run ==
    /\ Running(vm)
    /\ \E out \in (IF CallsSink(vm) THEN SinkResults ELSE {"ok"}) :
        /\ vm' = run_iteration(vm, out)
        /\ sink' = IF CallsSink(vm)
                   THEN Append(sink, [text |-> PrintText(vm), result |-> out,
                                     call |-> calls])
                   ELSE sink
    /\ UNCHANGED <<tokenizer, tokens, overflow_checks, parser, stage, calls, second>>

\* Parser::new(code) for the next program of a VM whose interpret call returned
NewParser ==
    /\ stage = "interpreted"
    /\ vm.status \in {"ok", "err"}
    /\ calls < MaxCalls
    /\ \E s \in Followups : parser' = Parser_new(s)
    /\ stage' = "new"
    /\ UNCHANGED <<tokenizer, tokens, overflow_checks, vm, sink, calls, second>>

Next == ParseStart \/ ParseDeclaration \/ ParseEnd \/ Interpret \/ Run \/ NewParser
Spec == Init /\ [][Next]_vars

\* the operands and the binary operators of the expressions compiled to
\* compare the code emitted with the expression's postfix form
Operands == {<<"1">>, <<"x">>, <<"n", "i", "l">>}
BinaryOperators ==
    {<<"=", "=">>, <<"!", "=">>, <<"<">>, <<"<", "=">>, <<">">>, <<">", "=">>,
     <<"+">>, <<"-">>, <<"*">>, <<"/">>}

\* a op1 b op2 c;
Binary2(a, op1, b, op2, c) ==
    a \o <<" ">> \o op1 \o <<" ">> \o b \o <<" ">> \o op2 \o <<" ">> \o c \o <<";">>
\* -a op b;
NegatedLeft(a, op, b) == <<"-">> \o a \o <<" ">> \o op \o <<" ">> \o b \o <<";">>

Expressions ==
    {Binary2(a, op1, b, op2, c) :
        a \in Operands, op1 \in BinaryOperators, b \in Operands,
        op2 \in BinaryOperators, c \in Operands}
    \cup {NegatedLeft(a, op, b) :
              a \in Operands, op \in BinaryOperators, b \in Operands}

\* one expression statement, or the documented precedence scenario, compiled
\* and run on a new VM
ExprInit ==
    /\ tokenizer = Tokenizer_new(<<>>)
    /\ tokens = <<>>
    /\ overflow_checks \in BOOLEAN
    /\ parser \in {Parser_new(e) : e \in Expressions \cup {ExPrecedence}}
    /\ stage = "new"
    /\ vm = VM_new
    /\ sink = <<>>
    /\ calls = 0
    /\ second = NoSecond

ExprNext == ParseStart \/ ParseDeclaration \/ ParseEnd \/ Interpret \/ Run
ExprSpec == ExprInit /\ [][ExprNext]_vars

\* the operands of the operations run one at a time: literals of every type
\* of value, a NaN and a negative zero
Literals ==
    {<<"0">>, <<"1">>, <<"2">>, <<"\"", "\"">>, <<"\"", "a", "\"">>,
     <<"\"", "1", "\"">>, <<"n", "i", "l">>, <<"t", "r", "u", "e">>,
     <<"f", "a", "l", "s", "e">>, <<"(", "0", "/", "0", ")">>, <<"-", "0">>}
UnaryOperators == {<<"!">>, <<"-">>}

\* print a op b;
PrintBinary(a, op, b) ==
    <<"p", "r", "i", "n", "t", " ">> \o a \o <<" ">> \o op \o <<" ">> \o b \o <<";">>
\* print op a;
PrintUnary(op, a) == <<"p", "r", "i", "n", "t", " ">> \o op \o a \o <<";">>

Operations ==
    {PrintBinary(a, op, b) : a \in Literals, op \in BinaryOperators, b \in Literals}
    \cup {PrintUnary(op, a) : op \in UnaryOperators, a \in Literals}

\* one operation on literals, compiled and run on a new VM
OpInit ==
    /\ tokenizer = Tokenizer_new(<<>>)
    /\ tokens = <<>>
    /\ overflow_checks \in BOOLEAN
    /\ parser \in {Parser_new(e) : e \in Operations}
    /\ stage = "new"
    /\ vm = VM_new
    /\ sink = <<>>
    /\ calls = 0
    /\ second = NoSecond

OpSpec == OpInit /\ [][ExprNext]_vars

\* the chunk of n True, n - 1 Equal, Print and Return, all of line 1: what
\* print true == (true == (true ... )); with n operands compiles to
PushChunk(n) ==
    [code |-> [i \in 1..(2 * n + 1) |->
                  Byte_new(IF i <= n THEN OpCode.True
                           ELSE IF i < 2 * n THEN OpCode.Equal
                           ELSE IF i = 2 * n THEN OpCode.Print
                           ELSE OpCode.Return, 1)],
     value_array |-> <<>>]

\* the numbers of operands that fill the stack but for one slot, that fill it,
\* and that are one more than it has slots
Pushes == {StackMax - 1, StackMax, StackMax + 1}

\* a new VM and no parser: the chunk is made by the caller
StackInit ==
    /\ tokenizer = Tokenizer_new(<<>>)
    /\ tokens = <<>>
    /\ overflow_checks \in BOOLEAN
    /\ Idle

\* vm.interpret(chunk) with a chunk of pushes, up to the loop of run
InterpretPushes ==
    /\ vm.status = "new"
    /\ \E n \in Pushes : vm' = interpret(vm, PushChunk(n))
    /\ stage' = "interpreted"
    /\ calls' = calls + 1
    /\ UNCHANGED <<tokenizer, tokens, overflow_checks, parser, sink, second>>

StackNext == InterpretPushes \/ Run
StackSpec == StackInit /\ [][StackNext]_vars

(***************************************************************************)
(* The tokenizer's end                                                     *)
(***************************************************************************)
Last(seq) == seq[Len(seq)]

\* the last scan_token call returned EndOfFile
AtEndOfFile == tokens # <<>> /\ Last(tokens).ty = "EndOfFile"

\* C10: once scan_token has returned EndOfFile, a later call returns
\* EndOfFile again, with the same line, and leaves the cursor where it was
EndOfFileIsTerminal ==
    [][AtEndOfFile =>
         /\ Last(tokens').ty = "EndOfFile"
         /\ Last(tokens').line = Last(tokens).line
         /\ tokenizer'.current = tokenizer.current]_vars

\* scan_token was called twice after the end of a source of two lines that
\* holds a token
EndOfFileReturnedAgain ==
    /\ Len(tokens) >= 4
    /\ tokens[1].ty # "EndOfFile"
    /\ tokens[Len(tokens) - 2].ty = "EndOfFile"
    /\ tokens[Len(tokens) - 1].ty = "EndOfFile"
    /\ Last(tokens).ty = "EndOfFile"
    /\ Last(tokens).line = 2

(***************************************************************************)
(* The constant pool's limit                                               *)
(***************************************************************************)
\* C1: compiling a source of more than 256 constants never crashes and ends
\* with the compile error 'Too many constants in one chunk.', so with no chunk
TooManyConstantsIsCompileError ==
    parser.tokenizer.source = ManyConstants =>
        /\ parser.status # "panic"
        /\ stage = "returned" =>
              /\ parser.status = "err"
              /\ parser.error = FormatError(1, ParserMessage.too_many_constants)

(***************************************************************************)
(* The lifetime of the globals                                             *)
(***************************************************************************)
\* the second interpret call on the VM is about to run its first instruction
SecondCallBegins == calls = 2 /\ vm.status = "running" /\ vm.ip = 0

\* C2 as stated: no name bound during the first interpret call is bound at
\* the start of the second call on the same VM
GlobalsLiveForOneCall == SecondCallBegins => DOMAIN vm.globals = {}

\* C2, amended: the global table lives as long as the VM; an interpret call
\* starts with the globals the call before left, and no name is ever unbound
GlobalsLiveWithTheVM ==
    [][/\ DOMAIN vm.globals \subseteq DOMAIN vm'.globals
       /\ calls' # calls => vm'.globals = vm.globals]_vars

\* the second call, of `print x;`, has printed the x the first call defined
SecondCallReadsFirstCallsGlobal ==
    /\ calls = 2
    /\ parser.tokenizer.source = StPrintX
    /\ vm.status = "ok"
    /\ sink # <<>>
    /\ Last(sink).call = 2
    /\ Last(sink).text = <<"1", "\n">>

(***************************************************************************)
(* The print sink                                                          *)
(***************************************************************************)
\* the opcodes that are followed by an operand byte
WithOperand ==
    {OpCode.Constant, OpCode.DefineGlobal, OpCode.GetGlobal, OpCode.SetGlobal}

\* the offset of the instruction after the instruction at offset `at`, the
\* end of the code at most
NextInstruction(code, at) ==
    IF at >= Len(code) THEN Len(code)
    ELSE IF code[at + 1].byte \in WithOperand /\ at + 2 <= Len(code) THEN at + 2
    ELSE at + 1

\* the instructions decoded in one run; the decoding goes run by run to keep
\* its recursion shallow
DecodeRun == 16

RECURSIVE StartsOfRun(_, _, _)
\* the offsets at which the next n instructions from offset `at` start
StartsOfRun(code, at, n) ==
    IF n = 0 \/ at >= Len(code) THEN {}
    ELSE {at} \cup StartsOfRun(code, NextInstruction(code, at), n - 1)

RECURSIVE AfterRun(_, _, _)
\* the offset n instructions after offset `at`
AfterRun(code, at, n) ==
    IF n = 0 \/ at >= Len(code) THEN at
    ELSE AfterRun(code, NextInstruction(code, at), n - 1)

RECURSIVE StartsFrom(_, _)
\* the offsets at which the instructions from offset `at` on start
StartsFrom(code, at) ==
    IF at >= Len(code) THEN {}
    ELSE StartsOfRun(code, at, DecodeRun)
             \cup StartsFrom(code, AfterRun(code, at, DecodeRun))

\* the offsets at which the instructions of `code` start
InstructionStarts(code) == StartsFrom(code, 0)

\* the offsets of the instructions the current interpret call has executed:
\* the chunk has no jumps, so they are those before the instruction pointer
Executed == {at \in InstructionStarts(vm.chunk.code) : at < vm.ip}

\* the Print instructions among them
ExecutedPrints == {at \in Executed : vm.chunk.code[at + 1].byte = OpCode.Print}

\* how many elements of a sequence satisfy a test
Count(seq, Test(_)) == Cardinality({i \in 1..Len(seq) : Test(seq[i])})

\* the texts the sink received, in order
SinkTexts == [i \in 1..Len(sink) |-> sink[i].text]

\* the sink was called once for each Print instruction executed by the
\* current interpret call, and by no call before the first
OncePerPrint ==
    IF calls = 0 THEN sink = <<>>
    ELSE Count(sink, LAMBDA c : c.call = calls)
             = Cardinality(ExecutedPrints)

\* a step that calls the sink executes a Print instruction and appends one
\* call, whose text is the display text of the stack's top and a newline
SinkCallIsPrint ==
    sink' # sink =>
        /\ vm.ip < Len(vm.chunk.code)
        /\ vm.chunk.code[vm.ip + 1].byte = OpCode.Print
        /\ Len(sink') = Len(sink) + 1
        /\ SubSeq(sink', 1, Len(sink)) = sink
        /\ Last(sink').text = Display(vm.stack[vm.stack_top]) \o <<"\n">>
        /\ vm'.stack_top = vm.stack_top - 1

\* the sample entry point's program, run to its end, has printed 10 and 4
MainPrints ==
    (calls = 1 /\ parser.tokenizer.source = ExMain /\ vm.status = "ok") =>
        SinkTexts = << <<"1", "0", "\n">>, <<"4", "\n">> >>

\* C3: the sink is invoked exactly once for every executed Print instruction
\* and at no other time, in the order of the Print instructions, each time
\* with the display text of the popped value followed by a newline
SinkOncePerPrintInOrder ==
    [](OncePerPrint /\ MainPrints) /\ [][SinkCallIsPrint]_vars

\* the sample entry point's program has run to its end and called the sink
\* for each of its two Print instructions
MainPrintedTwice ==
    /\ calls = 1
    /\ parser.tokenizer.source = ExMain
    /\ vm.status = "ok"
    /\ Len(sink) = 2
    /\ Cardinality(ExecutedPrints) = 2

\* the sink answered the last call of the current interpret call with an error
SinkFailed ==
    sink # <<>> /\ Last(sink).result = "err" /\ Last(sink).call = calls

\* a call the sink answered with an error is the last of its interpret call
FailedCallIsLast ==
    \A i \in 1..(Len(sink) - 1) :
        sink[i].result = "err" => sink[i + 1].call > sink[i].call

\* C4: when the sink returns an error, interpret returns that error and
\* executes nothing further: no later sink call, no later change of the VM
SinkErrorEndsInterpret ==
    /\ [](FailedCallIsLast
           /\ (SinkFailed => vm.status = "err" /\ vm.error = SinkError))
    /\ [][(SinkFailed /\ calls' = calls) => (vm' = vm /\ sink' = sink)]_vars

\* the sink failed at the first Print of the sample entry point's program,
\* before its assignment to b and its second Print
MainStoppedAtFirstPrint ==
    /\ calls = 1
    /\ parser.tokenizer.source = ExMain
    /\ SinkFailed
    /\ Len(sink) = 1
    /\ vm.status = "err"
    /\ vm.ip < Len(vm.chunk.code)
    /\ vm.globals[<<"b">>] = Value_Number(F64(1, 10, 1))

(***************************************************************************)
(* Runtime errors                                                          *)
(***************************************************************************)
\* the current interpret call ended with a runtime error
RuntimeError == vm.status = "err" /\ vm.error # SinkError

\* the line of the opcode byte of the last instruction executed
FailingLine ==
    vm.chunk.code[(CHOOSE at \in Executed : \A b \in Executed : b <= at) + 1].line

\* a text is '[line N] Error: <message>' for the line N
IsDiagnostic(text, line) ==
    LET head == <<"[", "l", "i", "n", "e", " ">> \o Decimal(line) \o <<"]", " ", "E", "r", "r", "o", "r", ":", " ">>
    IN /\ Len(text) > Len(head)
       /\ SubSeq(text, 1, Len(head)) = head

\* `print y;` on a new VM fails with 'Undefined variable y', prints nothing
\* and leaves the stack empty
UndefinedVariableExample ==
    (calls = 1 /\ parser.tokenizer.source = StPrintY /\ ~Running(vm)) =>
        /\ vm.status = "err"
        /\ vm.error =
              <<"[", "l", "i", "n", "e", " ", "1", "]", " ", "E", "r", "r", "o", "r", ":", " ", "U", "n", "d", "e", "f", "i", "n", "e", "d", " ",
                "v", "a", "r", "i", "a", "b", "l", "e", " ", "y">>
        /\ sink = <<>>
        /\ vm.stack_top = 0

\* C5: the first runtime error ends the interpretation with the error
\* '[line N] Error: <message>', N the line of the failing instruction; no
\* instruction and no sink call follows; `print y;` fails with 'Undefined
\* variable y', pushes nothing and prints nothing
RuntimeErrorEndsInterpret ==
    /\ []((RuntimeError => Executed # {} /\ IsDiagnostic(vm.error, FailingLine))
           /\ UndefinedVariableExample)
    /\ [][(RuntimeError /\ calls' = calls) => (vm' = vm /\ sink' = sink)]_vars

\* `print y;` has failed on a new VM, its Print and Return not executed
UndefinedVariableFailed ==
    /\ calls = 1
    /\ parser.tokenizer.source = StPrintY
    /\ RuntimeError
    /\ vm.ip = 2
    /\ vm.chunk.code[vm.ip + 1].byte = OpCode.Print

(***************************************************************************)
(* Assignment                                                              *)
(***************************************************************************)
\* the VM is about to execute a SetGlobal instruction
AtSetGlobal ==
    /\ Running(vm)
    /\ vm.ip + 2 <= Len(vm.chunk.code)
    /\ vm.chunk.code[vm.ip + 1].byte = OpCode.SetGlobal

\* the name its operand stands for
SetGlobalName ==
    Display(vm.chunk.value_array[vm.chunk.code[vm.ip + 2].byte + 1])

\* a text ends with another
EndsWith(text, tail) ==
    /\ Len(text) >= Len(tail)
    /\ SubSeq(text, Len(text) - Len(tail) + 1, Len(text)) = tail

\* the step SetGlobal takes: on a bound name the binding becomes the stack's
\* top and the stack stays; on an unbound name the error, and no binding
SetGlobalStep ==
    (AtSetGlobal /\ vm' # vm) =>
        IF SetGlobalName \in DOMAIN vm.globals
        THEN /\ vm'.globals =
                   [vm.globals EXCEPT ![SetGlobalName] = vm.stack[vm.stack_top]]
             /\ vm'.stack = vm.stack
             /\ vm'.stack_top = vm.stack_top
             /\ Running(vm')
        ELSE /\ vm'.globals = vm.globals
             /\ vm'.stack_top = vm.stack_top
             /\ vm'.status = "err"
             /\ IsDiagnostic(vm'.error, vm.chunk.code[vm.ip + 1].line)
             /\ EndsWith(vm'.error,
                         <<"U", "n", "d", "e", "f", "i", "n", "e", "d", " ", "v", "a", "r", "i", "a", "b", "l", "e", " ">>
                             \o SetGlobalName)

\* `var x = 1; x = 2; print x;` prints 2 and `var x = 1; print x = 5;`
\* prints 5, when the sink takes what they print
AssignmentExamples ==
    (calls = 1 /\ vm.status = "ok") =>
        /\ parser.tokenizer.source = ExReassign =>
              SinkTexts = << <<"2", "\n">> >>
        /\ parser.tokenizer.source = ExAssignValue =>
              SinkTexts = << <<"5", "\n">> >>

\* C6: SetGlobal on a bound name overwrites the binding with the stack's top
\* and leaves the stack unchanged, so an assignment yields the value
\* assigned; on an unbound name it fails with 'Undefined variable <name>'
\* and creates no binding
SetGlobalOverwritesAndKeepsTop ==
    []AssignmentExamples /\ [][SetGlobalStep]_vars

\* `var x = 1; print x = 5;` has run: x is 5 and 5 was printed
AssignedValuePrinted ==
    /\ calls = 1
    /\ parser.tokenizer.source = ExAssignValue
    /\ vm.status = "ok"
    /\ vm.globals[<<"x">>] = Value_Number(F64(1, 5, 1))
    /\ SinkTexts = << <<"5", "\n">> >>

(***************************************************************************)
(* The order of the code emitted for expressions                           *)
(***************************************************************************)
RECURSIVE Words(_, _)
\* the words of a text, separated by single spaces; `word` is the word begun
Words(text, word) ==
    IF text = <<>> THEN <<word>>
    ELSE IF Head(text) = " " THEN <<word>> \o Words(Tail(text), <<>>)
    ELSE Words(Tail(text), Append(word, Head(text)))

\* the bytes of a chunk's code, without their lines
Bytes(chunk) == [i \in 1..Len(chunk.code) |-> chunk.code[i].byte]

\* the level of a binary operator in Equality < Comparison < Term < Factor
Level(op) ==
    CASE op \in {<<"=", "=">>, <<"!", "=">>} -> 1
      [] op \in {<<"<">>, <<"<", "=">>, <<">">>, <<">", "=">>} -> 2
      [] op \in {<<"+">>, <<"-">>} -> 3
      [] op \in {<<"*">>, <<"/">>} -> 4

\* the opcodes a binary operator stands for
Operation(op) ==
    CASE op = <<"=", "=">> -> <<OpCode.Equal>>
      [] op = <<"!", "=">> -> <<OpCode.Equal, OpCode.Not>>
      [] op = <<"<">> -> <<OpCode.Less>>
      [] op = <<"<", "=">> -> <<OpCode.Greater, OpCode.Not>>
      [] op = <<">">> -> <<OpCode.Greater>>
      [] op = <<">", "=">> -> <<OpCode.Less, OpCode.Not>>
      [] op = <<"+">> -> <<OpCode.Add>>
      [] op = <<"-">> -> <<OpCode.Subtract>>
      [] op = <<"*">> -> <<OpCode.Multiply>>
      [] op = <<"/">> -> <<OpCode.Divide>>

\* the constants an operand adds to the pool
Pooled(a) == IF a = <<"n", "i", "l">> THEN 0 ELSE 1

\* the code that pushes an operand, the pool holding k constants before it
Load(a, k) ==
    CASE a = <<"1">> -> <<OpCode.Constant, k>>
      [] a = <<"x">> -> <<OpCode.GetGlobal, k>>
      [] a = <<"n", "i", "l">> -> <<OpCode.Nil>>

\* the postfix form of a op1 b op2 c: op2 first when it binds tighter than
\* op1, else op1 first
Postfix2(a, op1, b, op2, c) ==
    LET la == Load(a, 0)
        lb == Load(b, Pooled(a))
        lc == Load(c, Pooled(a) + Pooled(b))
    IN IF Level(op2) > Level(op1)
       THEN la \o lb \o lc \o Operation(op2) \o Operation(op1)
       ELSE la \o lb \o Operation(op1) \o lc \o Operation(op2)

\* the postfix form of -a op b: a is negated before op applies
PostfixNegated(a, op, b) ==
    Load(a, 0) \o <<OpCode.Negate>> \o Load(b, Pooled(a)) \o Operation(op)

\* the postfix form of the expression statement `text`
PostfixOf(text) ==
    LET w == Words(SubSeq(text, 1, Len(text) - 1), <<>>) IN
    IF Len(w) = 5 THEN Postfix2(w[1], w[2], w[3], w[4], w[5])
    ELSE PostfixNegated(Tail(w[1]), w[2], w[3])

\* the chunk compiled from an expression statement is the expression's
\* postfix form, then Pop and Return
ExpressionIsPostfix ==
    (Compiled /\ parser.tokenizer.source \in Expressions) =>
        Bytes(parser.chunk) =
            PostfixOf(parser.tokenizer.source) \o <<OpCode.Pop, OpCode.Return>>

\* `var a = 3; var b = 4 + 2 * a; print b;` prints 10
PrecedenceExample ==
    (parser.tokenizer.source = ExPrecedence /\ vm.status = "ok") =>
        SinkTexts = << <<"1", "0", "\n">> >>

\* C7: binary expressions are emitted in postfix order with the precedence
\* Equality < Comparison < Term < Factor < Unary and left associativity:
\* a + b * c is a b c Multiply Add, a - b - c is a b Subtract c Subtract,
\* -a * b negates a first, and the documented scenario prints 10
PostfixByPrecedence == ExpressionIsPostfix /\ PrecedenceExample

\* x - 1 - nil was compiled to x 1 Subtract nil Subtract
LeftAssociativeCompiled ==
    /\ Compiled
    /\ parser.tokenizer.source
           = Binary2(<<"x">>, <<"-">>, <<"1">>, <<"-">>, <<"n", "i", "l">>)
    /\ Bytes(parser.chunk) =
           <<OpCode.GetGlobal, 0, OpCode.Constant, 1, OpCode.Subtract, OpCode.Nil,
             OpCode.Subtract, OpCode.Pop, OpCode.Return>>

(***************************************************************************)
(* Compile errors                                                          *)
(***************************************************************************)
\* the statements of the programs that do not compile
ErrorStatements ==
    {StPrintNothing, StVarNumber, StPrintUnended, StParenUnended, StBlockUnended,
     StUnexpected, StStringUnended}

\* the error parse returns for a program of one such statement
ErrorOf(s) ==
      CASE s = StPrintNothing ->
             <<"[", "l", "i", "n", "e", " ", "1", "]", " ", "E", "r", "r", "o", "r",
               ":", " ", "E", "x", "p", "e", "c", "t", "e", "d", " ", "e", "x", "p",
               "r", "e", "s", "s", "i", "o", "n", ".">>
        [] s = StVarNumber ->
             <<"[", "l", "i", "n", "e", " ", "1", "]", " ", "E", "r", "r", "o", "r",
               ":", " ", "E", "x", "p", "e", "c", "t", "e", "d", " ", "v", "a", "r",
               "i", "a", "b", "l", "e", " ", "n", "a", "m", "e", ".">>
        [] s = StPrintUnended ->
             <<"[", "l", "i", "n", "e", " ", "1", "]", " ", "E", "r", "r", "o", "r",
               ":", " ", "E", "x", "p", "e", "c", "t", "e", "d", " ", "'", ";", "'",
               " ", "a", "f", "t", "e", "r", " ", "v", "a", "l", "u", "e", ".">>
        [] s = StParenUnended ->
             <<"[", "l", "i", "n", "e", " ", "1", "]", " ", "E", "r", "r", "o", "r",
               ":", " ", "E", "x", "p", "e", "c", "t", "e", "d", " ", "'", ")", "'",
               " ", "a", "f", "t", "e", "r", " ", "e", "x", "p", "r", "e", "s", "s",
               "i", "o", "n", ".">>
        [] s = StBlockUnended ->
             <<"[", "l", "i", "n", "e", " ", "1", "]", " ", "E", "r", "r", "o", "r",
               ":", " ", "E", "x", "p", "e", "c", "t", " ", "'", "(", "'", " ", "a",
               "f", "t", "e", "r", " ", "b", "l", "o", "c", "k", ".">>
        [] s = StUnexpected ->
             <<"[", "l", "i", "n", "e", " ", "1", "]", " ", "E", "r", "r", "o", "r",
               ":", " ", "U", "n", "e", "x", "p", "e", "c", "t", "e", "d", " ", "c",
               "h", "a", "r", "a", "c", "t", "e", "r", " ", "'", "@", "'">>
        [] s = StStringUnended ->
             <<"[", "l", "i", "n", "e", " ", "1", "]", " ", "E", "r", "r", "o", "r",
               ":", " ", "U", "n", "t", "e", "r", "m", "i", "n", "a", "t", "e", "d",
               " ", "s", "t", "r", "i", "n", "g">>

\* the parts of a text between the separators; a part lies between two
\* neighbouring cuts, the cuts being the positions of the separators, the
\* position before the text and the position after it
Split(text, separator) ==
    LET cuts == {0, Len(text) + 1} \cup {i \in 1..Len(text) : text[i] = separator}
        Neighbours(a, b) == a < b /\ \A m \in cuts : ~(a < m /\ m < b)
    IN  {SubSeq(text, c[1] + 1, c[2] - 1) :
            c \in {d \in cuts \X cuts : Neighbours(d[1], d[2])}}

\* a line of the source is a statement that does not compile
HasErrorStatement(source) ==
    Split(source, "\n") \cap ErrorStatements # {}

\* parse() returned an error
CompileError == parser.status = "err"

\* the token types that have a prefix handler
WithPrefix ==
    {"LParen", "Minus", "Bang", "Number", "String", "Ident", "True", "False", "Nil"}

\* the token type whose absence a message reports
Required ==
    [m \in {ParserMessage.variable_name, ParserMessage.declaration_semicolon,
            ParserMessage.expression_semicolon, ParserMessage.value_semicolon,
            ParserMessage.paren, ParserMessage.block} |->
        CASE m = ParserMessage.variable_name -> "Ident"
          [] m = ParserMessage.paren -> "RParen"
          [] m = ParserMessage.block -> "RBrace"
          [] OTHER -> "Semicolon"]

\* the error is the first Error token's, that of a token without a prefix
\* handler, or that of a token found in place of a required one; it carries
\* the line of that token
ErrorIsOffendingTokens ==
    IF parser.current.ty = "Error"
    THEN /\ IsDiagnostic(parser.error, parser.current.line)
         /\ EndsWith(parser.error, <<"]", " ", "E", "r", "r", "o", "r", ":", " ">> \o parser.current.text)
    ELSE IF EndsWith(parser.error, <<"]", " ", "E", "r", "r", "o", "r", ":", " ">> \o ParserMessage.expression)
    THEN /\ IsDiagnostic(parser.error, parser.previous.line)
         /\ parser.previous.ty \notin WithPrefix
    ELSE /\ IsDiagnostic(parser.error, parser.current.line)
         /\ \E m \in DOMAIN Required :
               /\ EndsWith(parser.error, <<"]", " ", "E", "r", "r", "o", "r", ":", " ">> \o m)
               /\ parser.current.ty # Required[m]

RECURSIVE Rescan(_, _, _)
\* the tokenizer and the token after the scan_token call that first returns
\* an Error token or reaches the cursor `target`, and the end if `end`
Rescan(t, target, end) ==
    LET r == scan_token(t) IN
    IF \/ r.t.panic
       \/ r.tok.ty = "Error"
       \/ r.t.current >= target /\ (end => r.tok.ty = "EndOfFile")
    THEN r
    ELSE Rescan(r.t, target, end)

\* the tokenizer stands behind the parser's current token, and no token
\* before it is an Error token
NothingScannedSince ==
    Rescan(Tokenizer_new(parser.tokenizer.source), parser.tokenizer.current,
           parser.current.ty = "EndOfFile")
        = [t |-> parser.tokenizer, tok |-> parser.current]

\* what holds when parse() has returned an error, and when it does
ErrorsOfParse ==
    /\ CompileError =>
          /\ stage = "returned"
          /\ ErrorIsOffendingTokens
          /\ NothingScannedSince
    /\ stage = "returned" =>
          /\ parser.current.ty = "Error" => CompileError
          /\ HasErrorStatement(parser.tokenizer.source) <=> CompileError
          /\ parser.tokenizer.source \in ErrorStatements =>
                parser.error = ErrorOf(parser.tokenizer.source)

\* C8: compilation stops at the first error, an Error token, a token without
\* a prefix handler where an expression is required, or a required token
\* missing: parse returns '[line N] Error: <message>', N the offending
\* token's line, scans no further token and returns no chunk
ParseStopsAtFirstError ==
    []ErrorsOfParse
    /\ [][CompileError => (parser' = parser /\ vm' = vm /\ calls' = calls)]_vars

\* parse() compiled a declaration of three lines and returned the error of the
\* statement on line 4, `print ;`
SecondStatementFailed ==
    /\ parser.tokenizer.source = Lines(<<StVarSplit, StPrintNothing>>)
    /\ CompileError
    /\ parser.chunk.code # <<>>
    /\ IsDiagnostic(parser.error, 4)
    /\ vm = VM_new

(***************************************************************************)
(* The lines of the code                                                   *)
(***************************************************************************)
RECURSIVE ScanRun(_, _, _), ScanRunNext(_, _, _)
\* the tokens of the next n scan_token calls, added to `scanned`; done at the
\* end of the source, at an Error token and at a panic
ScanRun(t, n, scanned) ==
    IF n = 0 THEN [t |-> t, tokens |-> scanned, done |-> FALSE]
    ELSE ScanRunNext(scan_token(t), n, scanned)

\* the same, given the next call's result
ScanRunNext(r, n, scanned) ==
    IF r.t.panic \/ r.tok.ty \in {"EndOfFile", "Error"}
    THEN [t |-> r.t, tokens |-> scanned, done |-> TRUE]
    ELSE ScanRun(r.t, n - 1, Append(scanned, r.tok))

RECURSIVE TokensFrom(_), TokensAfter(_)
\* the tokens scan_token returns from the tokenizer t on, before the end
TokensFrom(t) == TokensAfter(ScanRun(t, DecodeRun, <<>>))

\* the same, given the first run of them
TokensAfter(run) ==
    IF run.done THEN run.tokens ELSE run.tokens \o TokensFrom(run.t)

\* the lines of the source's tokens of the types `types`
TokenLines(source, types) ==
    LET all == TokensFrom(Tokenizer_new(source)) IN
    {all[i].line : i \in {j \in 1..Len(all) : all[j].ty \in types}}

\* the lines carried by the opcode bytes of `code` that are among `opcodes`
OpcodeLines(code, opcodes) ==
    {code[at + 1].line :
        at \in {b \in InstructionStarts(code) : code[b + 1].byte \in opcodes}}

\* the opcodes emitted for the unary and binary operators, and their tokens
OperatorOpcodes ==
    {OpCode.Negate, OpCode.Not, OpCode.Add, OpCode.Subtract, OpCode.Multiply,
     OpCode.Divide, OpCode.Equal, OpCode.Greater, OpCode.Less}
OperatorTokens ==
    {"Minus", "Bang", "Plus", "Asterisk", "Slash", "EqEq", "BangEq", "Greater",
     "GreaterEq", "Less", "LessEq"}

\* C9 as stated: the opcode of an operator carries the line of the operator
\* token, Print and DefineGlobal carry the line of their statement's keyword,
\* also when the statement spans several lines
OpcodesCarryTheirTokensLine ==
    Compiled =>
        /\ OpcodeLines(parser.chunk.code, OperatorOpcodes)
              = TokenLines(parser.tokenizer.source, OperatorTokens)
        /\ OpcodeLines(parser.chunk.code, {OpCode.Print})
              = TokenLines(parser.tokenizer.source, {"Print"})
        /\ OpcodeLines(parser.chunk.code, {OpCode.DefineGlobal})
              = TokenLines(parser.tokenizer.source, {"Var"})

\* the lines the bytes of `code` carry, in order
CodeLines(code) == [i \in 1..Len(code) |-> code[i].line]

\* the lines never decrease along the code
LinesInOrder(code) ==
    \A i \in 1..(Len(code) - 1) : code[i].line <= code[i + 1].line

\* the tokens an operand can end with
OperandEnds == {"Number", "String", "Ident", "Nil", "True", "False", "RParen"}

\* of a compiled program: a literal's Constant carries the literal's line, an
\* operator's opcode the line of a token that ends an operand, the opcode that
\* ends a statement the line of the statement's `;`, Return the last line
LinesOfPreviousToken ==
    Compiled =>
        /\ OpcodeLines(parser.chunk.code, {OpCode.Constant})
              = TokenLines(parser.tokenizer.source, {"Number", "String"})
        /\ OpcodeLines(parser.chunk.code, OperatorOpcodes \cup {OpCode.SetGlobal})
              \subseteq TokenLines(parser.tokenizer.source, OperandEnds)
        /\ OpcodeLines(parser.chunk.code, {OpCode.Print, OpCode.Pop, OpCode.DefineGlobal})
              = TokenLines(parser.tokenizer.source, {"Semicolon"})
        /\ Last(parser.chunk.code) = Byte_new(OpCode.Return, parser.previous.line)

\* the statements that span lines, each compiled alone: `print 1 +\nnil;`,
\* `print -\nnil\n;`, `var z\n= 1\n;` and `y\n= 1;`
SplitExamples ==
    Compiled =>
        /\ parser.tokenizer.source = StAddSplit
              => CodeLines(parser.chunk.code) = <<1, 1, 2, 2, 2, 2>>
        /\ parser.tokenizer.source = StNegateSplit
              => CodeLines(parser.chunk.code) = <<2, 2, 3, 3>>
        /\ parser.tokenizer.source = StVarSplit
              => CodeLines(parser.chunk.code) = <<2, 2, 3, 3, 3>>
        /\ parser.tokenizer.source = StAssignSplit
              => CodeLines(parser.chunk.code) = <<2, 2, 2, 2, 2, 2>>

\* C9, amended: every byte carries the line of the token the parser consumed
\* last before emitting it, so the lines never decrease along the code, an
\* operator's opcode carries the line its operand ends on and Print, Pop and
\* DefineGlobal the line of their statement's `;`; a runtime error reports the
\* line carried by the opcode byte of the instruction that raised it
BytesCarryPreviousTokensLine ==
    /\ LinesInOrder(parser.chunk.code)
    /\ LinesOfPreviousToken
    /\ SplitExamples
    /\ RuntimeError => IsDiagnostic(vm.error, FailingLine)

\* `print 1 +\nnil;` has failed at its Add, the error naming line 2, the line
\* of `nil`
SplitAddFailedOnOperandsLine ==
    /\ parser.tokenizer.source = StAddSplit
    /\ vm.chunk = parser.chunk
    /\ RuntimeError
    /\ FailingLine = 2
    /\ IsDiagnostic(vm.error, 2)

(***************************************************************************)
(* Two tokenizers and two parsers on one source                            *)
(***************************************************************************)
\* print "é";
StPrintEAcute == <<"p", "r", "i", "n", "t", " ", "\"", EAcute, "\"", ";">>

\* the sources tokenized twice and compiled twice
TwiceSources ==
    Statements \cup {ExPrecedence, ExConcat, ExFalsiness, ExEquality, StPrintEAcute}

TwiceInit ==
    /\ \E s \in TwiceSources :
          /\ tokenizer = Tokenizer_new(s)
          /\ parser = Parser_new(s)
    /\ tokens = <<>>
    /\ overflow_checks \in BOOLEAN
    /\ stage = "new"
    /\ vm = VM_new
    /\ sink = <<>>
    /\ calls = 0
    /\ second = NoSecond

\* whether a tokenizer that returned `scanned` is called again: not after
\* EndOfFile
ScansOn(t, scanned) ==
    /\ ~t.panic
    /\ IF scanned = <<>> THEN TRUE ELSE Last(scanned).ty # "EndOfFile"

\* one call of scan_token() on the first tokenizer
TwiceScan ==
    /\ ScansOn(tokenizer, tokens)
    /\ tokenizer' = scan_token(tokenizer).t
    /\ tokens' = Append(tokens, scan_token(tokenizer).tok)
    /\ UNCHANGED <<overflow_checks, parser, stage, vm, sink, calls, second>>

\* the second tokenizer and the second parser handed the first ones' state
\* instead of the source
SecondNew_SharesInstances ==
    /\ second.stage = "none"
    /\ second' = [tokenizer |-> tokenizer, tokens |-> <<>>, parser |-> parser,
                  stage |-> "new"]
    /\ UNCHANGED <<overflow_checks, tokenizer, tokens, parser, stage, vm, sink, calls>>

\* Tokenizer::new(code) and Parser::new(code) once more, for the same source,
\* wherever the first ones are
SecondNew ==
    /\ second.stage = "none"
    /\ second' = [tokenizer |-> Tokenizer_new(tokenizer.source), tokens |-> <<>>,
                  parser |-> Parser_new(parser.tokenizer.source), stage |-> "new"]
    /\ UNCHANGED <<overflow_checks, tokenizer, tokens, parser, stage, vm, sink, calls>>

\* one call of scan_token() on the second tokenizer
SecondScan ==
    /\ second.stage # "none"
    /\ ScansOn(second.tokenizer, second.tokens)
    /\ second' = [second EXCEPT
                      !.tokenizer = scan_token(second.tokenizer).t,
                      !.tokens = Append(second.tokens, scan_token(second.tokenizer).tok)]
    /\ UNCHANGED <<overflow_checks, tokenizer, tokens, parser, stage, vm, sink, calls>>

\* the next step of parse() on the parser p: the first advance, a declaration,
\* or the end of the loop and end_compilation
ParseStep(p, at) ==
    IF at = "new" THEN Parser_advance([p EXCEPT !.chunk = Chunk_new])
    ELSE IF ~check(p, "EndOfFile") THEN declaration(p)
    ELSE Then(match_tok(p, "EndOfFile"), end_compilation)

\* where parse() is after that step, which left the parser q
StageAfter(p, at, q) ==
    IF at = "declarations" /\ check(p, "EndOfFile") THEN "returned" ELSE After(q)

\* the second parser after a step that left it q
SecondParsed(q) ==
    [second EXCEPT !.parser = q,
                   !.stage = StageAfter(second.parser, second.stage, q)]

\* one step of parse() on the second parser
SecondParse ==
    /\ second.stage \in {"new", "declarations"}
    /\ second' = SecondParsed(ParseStep(second.parser, second.stage))
    /\ UNCHANGED <<overflow_checks, tokenizer, tokens, parser, stage, vm, sink, calls>>

TwiceNext ==
    TwiceScan \/ SecondNew \/ SecondScan \/ ParseStart \/ ParseDeclaration
        \/ ParseEnd \/ SecondParse
TwiceSpec == TwiceInit /\ [][TwiceNext]_vars

\* the length of the shorter of two sequences
Shorter(a, b) == IF Len(a) <= Len(b) THEN Len(a) ELSE Len(b)

AtOp(op) ==
    /\ Running(vm)
    /\ vm.ip < Len(vm.chunk.code)
    /\ vm.chunk.code[vm.ip + 1].byte = op

\* the values on the stack of a VM, the top last
StackOf(v) == SubSeq(v.stack, 1, v.stack_top)

\* the stack below its top value and below its top two values
Below1 == SubSeq(vm.stack, 1, vm.stack_top - 1)
Below2 == SubSeq(vm.stack, 1, vm.stack_top - 2)

\* the top value and the value under it
TopB == vm.stack[vm.stack_top]
TopA == vm.stack[vm.stack_top - 1]

\* the step replaces the top n values by `value` and goes on
Replaces(below, value) ==
    /\ Running(vm')
    /\ StackOf(vm') = Append(below, value)
    /\ sink' = sink

\* the step fails with `message` at the line of the instruction, the stack
\* as it was
Fails(message) ==
    /\ vm'.status = "err"
    /\ vm'.error = FormatError(vm.chunk.code[vm.ip + 1].line, message)
    /\ StackOf(vm') = StackOf(vm)
    /\ sink' = sink

\* the step Add takes on a (under the top) and b (the top)
AddStep ==
    (AtOp(OpCode.Add) /\ vm.stack_top >= 2 /\ vm' # vm) =>
        IF is_string(TopA) /\ is_string(TopB)
        THEN Replaces(Below2, Value_String(TopA.s \o TopB.s))
        ELSE IF is_number(TopA) /\ is_number(TopB)
        THEN Replaces(Below2, Value_Number(F64Add(TopA.n, TopB.n)))
        ELSE Fails(<<"I", "n", "v", "a", "l", "i", "d", " ", "o", "p", "e", "r", "a",
                     "n", "d", "s", ".">>)

\* the operation of the program has run to its end, or to its error
Finished == stage = "interpreted" /\ vm.status \in {"ok", "err"}

\* `print "a" + "1";` prints a1, `print 1 + 2;` prints 3, and `print "a" + 1;`,
\* `print "1" + 1;` and `print 1 + "1";` print nothing
AddExamples ==
    Finished =>
        /\ parser.tokenizer.source = PrintBinary(<<"\"", "a", "\"">>, <<"+">>, <<"\"", "1", "\"">>)
              => SinkTexts = << <<"a", "1", "\n">> >>
        /\ parser.tokenizer.source = PrintBinary(<<"1">>, <<"+">>, <<"2">>)
              => SinkTexts = << <<"3", "\n">> >>
        /\ parser.tokenizer.source \in
                {PrintBinary(<<"\"", "a", "\"">>, <<"+">>, <<"1">>),
                 PrintBinary(<<"\"", "1", "\"">>, <<"+">>, <<"1">>),
                 PrintBinary(<<"1">>, <<"+">>, <<"\"", "1", "\"">>)}
              => (SinkTexts = <<>> /\ vm.status = "err")

\* C12: Add replaces two strings a and b by a followed by b and two numbers by
\* their sum, and fails with 'Invalid operands.' on every other pair of
\* operands, a string and a number included
AddConcatenatesOrSums == [][AddStep]_vars /\ []AddExamples

\* `print "a" + "1";` has printed a1
ConcatenationPrinted ==
    /\ Finished
    /\ parser.tokenizer.source = PrintBinary(<<"\"", "a", "\"">>, <<"+">>, <<"\"", "1", "\"">>)
    /\ SinkTexts = << <<"a", "1", "\n">> >>

\* the step Not takes on the top value
NotStep ==
    (AtOp(OpCode.Not) /\ vm.stack_top >= 1 /\ vm' # vm) =>
        Replaces(Below1, Value_Bool(TopB = Value_Nil \/ TopB = Value_Bool(FALSE)))

\* `print !a;` hands `text` and a newline to the sink
NotPrints(a, text) ==
    (Finished /\ parser.tokenizer.source = PrintUnary(<<"!">>, a))
        => (~RuntimeError /\ SinkTexts = <<text \o <<"\n">> >>)

\* `print !nil;` and `print !false;` print true; `print !0;`, `print !-0;`,
\* `print !"";`, `print !true;` and the others print false
NotExamples ==
    /\ \A a \in {<<"n", "i", "l">>, <<"f", "a", "l", "s", "e">>} :
          NotPrints(a, <<"t", "r", "u", "e">>)
    /\ \A a \in Literals \ {<<"n", "i", "l">>, <<"f", "a", "l", "s", "e">>} :
          NotPrints(a, <<"f", "a", "l", "s", "e">>)

\* C13: Not replaces the top of the stack by Bool(true) exactly when it is Nil
\* or Bool(false), and by Bool(false) for every other value, the number 0 and
\* the empty string included
NotIsTrueOfNilAndFalseOnly == [][NotStep]_vars /\ []NotExamples

\* `print !0;` has printed false
NotZeroPrintedFalse ==
    /\ Finished
    /\ parser.tokenizer.source = PrintUnary(<<"!">>, <<"0">>)
    /\ SinkTexts = << <<"f", "a", "l", "s", "e", "\n">> >>

\* the value a literal of the operations stands for
ValueOf(lit) ==
    CASE lit = <<"0">> -> Value_Number([sgn |-> 1, num |-> 0, den |-> 1])
      [] lit = <<"1">> -> Value_Number([sgn |-> 1, num |-> 1, den |-> 1])
      [] lit = <<"2">> -> Value_Number([sgn |-> 1, num |-> 2, den |-> 1])
      [] lit = <<"-", "0">> -> Value_Number([sgn |-> -1, num |-> 0, den |-> 1])
      [] lit = <<"(", "0", "/", "0", ")">> -> Value_Number(NaN)
      [] lit = <<"\"", "\"">> -> Value_String(<<>>)
      [] lit = <<"\"", "a", "\"">> -> Value_String(<<"a">>)
      [] lit = <<"\"", "1", "\"">> -> Value_String(<<"1">>)
      [] lit = <<"n", "i", "l">> -> Value_Nil
      [] lit = <<"t", "r", "u", "e">> -> Value_Bool(TRUE)
      [] lit = <<"f", "a", "l", "s", "e">> -> Value_Bool(FALSE)

\* two values are of the same variant, with the same payload (the number
\* zero is one payload, whatever its sign)
SameValue(a, b) ==
    \/ a = b
    \/ is_number(a) /\ is_number(b) /\ IsZero(a.n) /\ IsZero(b.n)

\* the same, a NaN being equal to nothing as for f64
EqualValue(a, b) ==
    /\ SameValue(a, b)
    /\ is_number(a) => ~IsNaN(a.n)

\* `print a op b;` hands the text of the value to the sink
BinaryPrints(a, op, b, value) ==
    (Finished /\ parser.tokenizer.source = PrintBinary(a, op, b))
        => (~RuntimeError /\ SinkTexts = <<Display(value) \o <<"\n">> >>)

\* C14 as stated: Equal replaces two values by Bool(true) exactly when they
\* have the same variant and the same payload, and never fails; `!=` is the
\* negation
EqualIsSameVariantAndPayload ==
    /\ (AtOp(OpCode.Equal) /\ vm.stack_top >= 2)
          => run_iteration(vm, "ok").stack[vm.stack_top - 1]
                 = Value_Bool(SameValue(TopA, TopB))
    /\ \A a \in Literals, b \in Literals :
          /\ BinaryPrints(a, <<"=", "=">>, b, Value_Bool(SameValue(ValueOf(a), ValueOf(b))))
          /\ BinaryPrints(a, <<"!", "=">>, b, Value_Bool(~SameValue(ValueOf(a), ValueOf(b))))

\* the step Equal takes on a (under the top) and b (the top)
EqualStep ==
    (AtOp(OpCode.Equal) /\ vm.stack_top >= 2 /\ vm' # vm) =>
        Replaces(Below2, Value_Bool(EqualValue(TopA, TopB)))

\* what `print a == b;` and `print a != b;` print, for all literals a and b
EqualExamples ==
    \A a \in Literals, b \in Literals :
        /\ BinaryPrints(a, <<"=", "=">>, b, Value_Bool(EqualValue(ValueOf(a), ValueOf(b))))
        /\ BinaryPrints(a, <<"!", "=">>, b, Value_Bool(~EqualValue(ValueOf(a), ValueOf(b))))

\* C14, amended: Equal replaces two values by Bool(true) exactly when they
\* have the same variant and the same payload and are not a NaN, which as an
\* f64 equals nothing, itself included; it never fails, operands of different
\* variants give Bool(false), and `!=` is the negation
EqualExceptNaN == [][EqualStep]_vars /\ []EqualExamples

\* `print (0/0) == (0/0);` has printed false
NaNNotEqualToItself ==
    /\ Finished
    /\ parser.tokenizer.source
          = PrintBinary(<<"(", "0", "/", "0", ")">>, <<"=", "=">>, <<"(", "0", "/", "0", ")">>)
    /\ vm.status = "ok"
    /\ SinkTexts = << <<"f", "a", "l", "s", "e", "\n">> >>

(***************************************************************************)
(* The text of a token                                                     *)
(***************************************************************************)
\* the kinds of the punctuation and of the operators
PunctuationKinds ==
    {"LParen", "RParen", "LBrace", "RBrace", "Semicolon", "Plus", "Minus",
     "Asterisk", "Slash", "Bang", "BangEq", "Eq", "EqEq", "Less", "LessEq",
     "Greater", "GreaterEq"}

\* the kinds of the keywords
KeywordKinds ==
    {"And", "Class", "Else", "False", "For", "Fun", "If", "Nil", "Or", "Print",
     "Return", "Super", "This", "True", "Var", "While"}

\* the tokens returned so far, the `tok` of a call that panicked left out
Returned == {tokens[i] : i \in {j \in 1..Len(tokens) : tokens[j] # NoToken}}

\* the last call returned a token of one of the kinds
LastIs(kinds) ==
    /\ tokens # <<>>
    /\ ~tokenizer.panic
    /\ Last(tokens).ty \in kinds

\* the characters between the first and the last of those the last token was
\* scanned from: a string literal's content
Content == SubSeq(tokenizer.source, tokenizer.start + 2, tokenizer.current - 1)

\* C15 as stated: a token's text is empty for punctuation, operators,
\* keywords and EndOfFile, and is content only for Identifier, Number, String
\* (the literal without its quotes) and Error tokens
KeywordTextIsEmpty ==
    /\ \A tok \in Returned :
          /\ tok.ty \in PunctuationKinds \cup KeywordKinds \cup {"EndOfFile"}
                => tok.text = <<>>
          /\ tok.text # <<>> => tok.ty \in {"Ident", "Number", "String", "Error"}
    /\ LastIs({"String"}) => Last(tokens).text = Content

(***************************************************************************)
(* Blocks                                                                  *)
(***************************************************************************)
RECURSIVE ParseFrom(_, _)
\* parse() from the step `at` on: the parser when it returns
ParseFrom(p, at) ==
    IF at = "returned" THEN p
    ELSE ParseFrom(ParseStep(p, at), StageAfter(p, at, ParseStep(p, at)))

\* the parser after parse() on a new Parser for the source
Parsed(source) == ParseFrom(Parser_new(source), "new")

\* the first interpret call has returned Ok(()), or failed in the sink only
RanToEnd == calls = 1 /\ stage = "interpreted" /\ vm.status \in {"ok", "err"} /\ ~RuntimeError

\* the program with `var y = 1;` inside n blocks compiles to the chunk of the
\* program with the declaration at top level, and so binds and prints the same
BlocksCompileAway ==
    \A n \in 1..MaxDepth :
        parser.tokenizer.source = BlockProgram(n) =>
            /\ stage = "returned" =>
                  (Ok(parser) /\ parser.chunk = Parsed(BlockProgram(0)).chunk)
            /\ (stage = "interpreted" /\ calls = 1 /\ vm.status \in {"ok", "err"}) =>
                  (~RuntimeError /\ <<"y">> \in DOMAIN vm.globals)
            /\ (RanToEnd /\ vm.status = "ok") =>
                  /\ SinkTexts = << <<"1", "\n">>, <<"3", "\n">> >>
                  /\ vm.globals = [name \in {<<"y">>} |-> Value_Number(F64(1, 3, 1))]

\* `{ var y; }` followed by `print y;` prints nil and followed by `y = 1;`
\* binds y to 1: the y declared in the block is there after the block
DeclaredInBlockIsGlobal ==
    (stage = "interpreted" /\ calls = 1 /\ vm.status \in {"ok", "err"}) =>
        /\ parser.tokenizer.source = Lines(<<StBlockVarY, StPrintY>>) =>
              (~RuntimeError /\ SinkTexts = << <<"n", "i", "l", "\n">> >>)
        /\ parser.tokenizer.source = Lines(<<StBlockVarY, StAssignY>>) =>
              (vm.status = "ok" /\ vm.globals[<<"y">>] = ValueOf(<<"1">>))

\* a program that ends inside a block does not compile
UnclosedBlockFails ==
    (stage = "returned" /\ \E f \in SeqsUpTo(Statements, MaxStmts - 1) :
         parser.tokenizer.source = Lines(Append(f, StBlockUnended)))
        => parser.status = "err"

\* C16: a `var` declaration inside blocks, at any depth, compiles to the code
\* it compiles to at top level, so that the variable is a global, readable
\* and assignable after the closing `}`; an unclosed block is a compile error
BlocksIntroduceNoScope ==
    /\ BlocksCompileAway
    /\ DeclaredInBlockIsGlobal
    /\ UnclosedBlockFails

\* the y declared inside three blocks has been printed, assigned and printed
\* again after them
DeclaredInBlocksUsedAfter ==
    /\ parser.tokenizer.source = BlockProgram(MaxDepth)
    /\ RanToEnd
    /\ vm.status = "ok"
    /\ SinkTexts = << <<"1", "\n">>, <<"3", "\n">> >>

(***************************************************************************)
(* The stack's limit                                                       *)
(***************************************************************************)
\* the opcodes of the instructions that push without popping
PushOpcodes ==
    {OpCode.Constant, OpCode.Nil, OpCode.True, OpCode.False, OpCode.GetGlobal}

\* the VM is about to push on a full stack
AtPushOnFullStack ==
    /\ \E op \in PushOpcodes : AtOp(op)
    /\ vm.stack_top = StackMax

\* the stack is its 256 slots, and at most all of them hold values
StackWithinItsSlots ==
    /\ DOMAIN vm.stack = 1..StackMax
    /\ vm.stack_top \in 0..StackMax

\* the step from a push on a full stack: a panic, the stack and the sink as
\* they were and no error text
PushOnFullStackPanics ==
    (AtPushOnFullStack /\ vm' # vm) =>
        /\ vm'.status = "panic"
        /\ vm'.stack = vm.stack
        /\ vm'.stack_top = vm.stack_top
        /\ vm'.error = <<>>
        /\ sink' = sink

\* C17: the stack never holds more than 256 values: a push at stack_top = 256
\* ends the execution in a panic, not in a write outside the stack, not in
\* the overwrite of a value on it and not in a '[line N] Error' result
StackOverflowIsFatal == []StackWithinItsSlots /\ [][PushOnFullStackPanics]_vars

\* the 257th True of a chunk has met the full stack: the VM has panicked
OverflowPanicked ==
    /\ vm.chunk = PushChunk(StackMax + 1)
    /\ vm.status = "panic"
    /\ vm.stack_top = StackMax
    /\ vm.ip = StackMax + 1

(***************************************************************************)
(* Where an assignment is compiled                                         *)
(***************************************************************************)
\* the words of the expression statements compiled to find where `=` is
\* taken as an assignment, and how many of them a statement has at most
AssignWords == {<<"x">>, <<"=">>, <<"+">>, <<"-">>, <<"(">>, <<")">>}
MaxWords == 5

RECURSIVE Spaced(_)
\* the words of a sequence, each followed by a space
Spaced(words) ==
    IF words = <<>> THEN <<>> ELSE Head(words) \o <<" ">> \o Spaced(Tail(words))

\* a = b = c;
StAssignChain == <<"a", " ", "=", " ", "b", " ", "=", " ", "c", ";">>
\* a + b = c;
StAssignToSum == <<"a", " ", "+", " ", "b", " ", "=", " ", "c", ";">>
\* -a = c;
StAssignToNegated == <<"-", "a", " ", "=", " ", "c", ";">>
\* print a + (b = c);
StAssignInGrouping ==
    <<"p", "r", "i", "n", "t", " ", "a", " ", "+", " ", "(", "b", " ", "=", " ", "c", ")", ";">>
\* var a; var b; var c = 1; on one line
StVarsABC ==
    <<"v", "a", "r", " ", "a", ";", " ", "v", "a", "r", " ", "b", ";", " ",
      "v", "a", "r", " ", "c", " ", "=", " ", "1", ";", " ">>
\* print a; print b; on one line
StPrintAB ==
    <<" ", "p", "r", "i", "n", "t", " ", "a", ";", " ", "p", "r", "i", "n", "t", " ", "b", ";">>
\* var a; var b; var c = 1; a = b = c; print a; print b;
ExAssignChain == StVarsABC \o StAssignChain \o StPrintAB

AssignSources ==
    {Spaced(w) \o <<";">> : w \in SeqsUpTo(AssignWords, MaxWords)}
    \cup {StAssignChain, StAssignToSum, StAssignToNegated, StAssignInGrouping,
          ExAssignChain}

\* one statement of these, compiled and run on a new VM
AssignInit ==
    /\ tokenizer = Tokenizer_new(<<>>)
    /\ tokens = <<>>
    /\ overflow_checks \in BOOLEAN
    /\ parser \in {Parser_new(e) : e \in AssignSources}
    /\ stage = "new"
    /\ vm = VM_new
    /\ sink = <<>>
    /\ calls = 0
    /\ second = NoSecond

AssignSpec == AssignInit /\ [][ExprNext]_vars

\* the tokens after which an expression is parsed at Assignment precedence:
\* the end of a statement or of a block, `{`, `print`, `(` and `=`
BeforeExpression == {"Semicolon", "LBrace", "RBrace", "Print", "LParen", "Eq"}

\* the `=` tokens of a token sequence
EqTokens(all) == {i \in 1..Len(all) : all[i].ty = "Eq"}

\* those that follow a `var` declaration's name
InitializerTokens(all) ==
    {i \in EqTokens(all) : i > 2 /\ all[i - 1].ty = "Ident" /\ all[i - 2].ty = "Var"}

\* those that directly follow an identifier that begins an expression parsed
\* at Assignment precedence
AssignmentTokens(all) ==
    {i \in EqTokens(all) :
        /\ i > 1
        /\ all[i - 1].ty = "Ident"
        /\ i > 2 => all[i - 2].ty \in BeforeExpression}

\* the offsets of the SetGlobal instructions of `code`
SetGlobals(code) ==
    {at \in InstructionStarts(code) : code[at + 1].byte = OpCode.SetGlobal}

\* parse() has returned, with Ok or with Err
ParseReturned == stage \in {"returned", "interpreted"}

\* no more SetGlobal than `=` after an identifier that begins an expression
\* at Assignment precedence, one for each of them in a program that compiles,
\* and a program with `=` anywhere else does not compile
SetGlobalForAssignmentLevelOnly ==
    ParseReturned =>
        LET all == TokensFrom(Tokenizer_new(parser.tokenizer.source))
            assigned == AssignmentTokens(all)
            others == (EqTokens(all) \ assigned) \ InitializerTokens(all)
        IN /\ Cardinality(SetGlobals(parser.chunk.code)) <= Cardinality(assigned)
           /\ Ok(parser) =>
                 Cardinality(SetGlobals(parser.chunk.code)) = Cardinality(assigned)
           /\ others # {} => parser.status = "err"

\* `a = b = c;` compiles to the load of c, the store to b, the store to a;
\* `a + b = c;` and `-a = c;` fail at the `=`, no SetGlobal emitted;
\* `print a + (b = c);` compiles, with the store to b
AssignmentLevelExamples ==
    ParseReturned =>
        /\ parser.tokenizer.source = StAssignChain =>
              /\ Ok(parser)
              /\ Bytes(parser.chunk) =
                     <<OpCode.GetGlobal, 2, OpCode.SetGlobal, 1, OpCode.SetGlobal, 0,
                       OpCode.Pop, OpCode.Return>>
              /\ parser.chunk.value_array =
                     <<Value_String(<<"a">>), Value_String(<<"b">>), Value_String(<<"c">>)>>
        /\ parser.tokenizer.source \in {StAssignToSum, StAssignToNegated} =>
              /\ parser.status = "err"
              /\ parser.error = FormatError(1, ParserMessage.expression_semicolon)
              /\ parser.current.ty = "Eq"
              /\ SetGlobals(parser.chunk.code) = {}
        /\ parser.tokenizer.source = StAssignInGrouping =>
              /\ Ok(parser)
              /\ Bytes(parser.chunk) =
                     <<OpCode.GetGlobal, 0, OpCode.GetGlobal, 2, OpCode.SetGlobal, 1,
                       OpCode.Add, OpCode.Print, OpCode.Return>>

\* `var a; var b; var c = 1; a = b = c; print a; print b;` binds a and b to 1
AssignChainBindsBoth ==
    (parser.tokenizer.source = ExAssignChain /\ RanToEnd /\ vm.status = "ok") =>
        /\ vm.globals[<<"a">>] = ValueOf(<<"1">>)
        /\ vm.globals[<<"b">>] = ValueOf(<<"1">>)
        /\ SinkTexts = << <<"1", "\n">>, <<"1", "\n">> >>

\* C18: SetGlobal is emitted only for an identifier that begins an expression
\* parsed at Assignment precedence and is directly followed by `=`, so that
\* `a = b = c` assigns right to left; with an identifier that is an operand of
\* a unary or binary operator before the `=`, as in `a + b = c` and `-a = c`,
\* no SetGlobal is emitted for it and the program does not compile
AssignmentAtAssignmentLevelOnly ==
    /\ SetGlobalForAssignmentLevelOnly
    /\ AssignmentLevelExamples
    /\ AssignChainBindsBoth

\* `x + x = x ;` was refused at its `=`, with no SetGlobal emitted
AssignToSumRefused ==
    /\ parser.tokenizer.source = Spaced(<<<<"x">>, <<"+">>, <<"x">>, <<"=">>, <<"x">>>>) \o <<";">>
    /\ stage = "returned"
    /\ parser.status = "err"
    /\ parser.current.ty = "Eq"
    /\ Bytes(parser.chunk) = <<OpCode.GetGlobal, 0, OpCode.GetGlobal, 1, OpCode.Add>>

(***************************************************************************)
(* The instructions on numbers                                             *)
(***************************************************************************)
\* the instructions of binop! that leave a Number, and those that leave a Bool
ArithmeticOpcodes == {OpCode.Subtract, OpCode.Multiply, OpCode.Divide}
ComparisonOpcodes == {OpCode.Greater, OpCode.Less}

\* the step goes on with the top n values replaced by one value, of which
\* Test is true
ReplacesByOne(below, Test(_)) ==
    /\ Running(vm')
    /\ vm'.stack_top = Len(below) + 1
    /\ SubSeq(vm'.stack, 1, Len(below)) = below
    /\ Test(vm'.stack[vm'.stack_top])
    /\ sink' = sink

\* the step a binop! instruction takes on a (under the top) and b (the top)
BinopStep ==
    \A op \in ArithmeticOpcodes \cup ComparisonOpcodes :
        (AtOp(op) /\ vm.stack_top >= 2 /\ vm' # vm) =>
            IF is_number(TopA) /\ is_number(TopB)
            THEN IF op \in ArithmeticOpcodes
                 THEN ReplacesByOne(Below2, is_number)
                 ELSE ReplacesByOne(Below2, is_bool)
            ELSE Fails(<<"O", "p", "e", "r", "a", "n", "d", "s", " ", "m", "u", "s",
                         "t", " ", "b", "e", " ", "n", "u", "m", "b", "e", "r", "s", ".">>)

\* the step Negate takes on the top value
NegateStep ==
    (AtOp(OpCode.Negate) /\ vm.stack_top >= 1 /\ vm' # vm) =>
        IF is_number(TopB)
        THEN ReplacesByOne(Below1, is_number)
        ELSE Fails(<<"O", "p", "e", "r", "a", "n", "d", "(", "s", ")", " ", "m", "u",
                     "s", "t", " ", "b", "e", " ", "a", " ", "n", "u", "m", "b", "e",
                     "r", ".">>)

\* `print op a;` hands the text of the value to the sink
UnaryPrints(op, a, value) ==
    (Finished /\ parser.tokenizer.source = PrintUnary(op, a))
        => (~RuntimeError /\ SinkTexts = <<Display(value) \o <<"\n">> >>)

\* the operation of the program failed at run time, nothing printed
OperationFailed == Finished => (RuntimeError /\ SinkTexts = <<>>)

\* 2 - 1 is 1, 2 * 2 is 4, 1 / 2 is 0.5, 1 / 0 is inf, 1 < 2 and 2 > 1 are
\* true, 2 < 2 is false and -2 is -2; with nil, a Bool or a string as an
\* operand the operation fails
NumberExamples ==
    /\ BinaryPrints(<<"2">>, <<"-">>, <<"1">>, Value_Number(F64(1, 1, 1)))
    /\ BinaryPrints(<<"2">>, <<"*">>, <<"2">>, Value_Number(F64(1, 4, 1)))
    /\ BinaryPrints(<<"1">>, <<"/">>, <<"2">>, Value_Number(F64(1, 1, 2)))
    /\ BinaryPrints(<<"1">>, <<"/">>, <<"0">>, Value_Number(F64(1, 1, 0)))
    /\ BinaryPrints(<<"1">>, <<"<">>, <<"2">>, Value_Bool(TRUE))
    /\ BinaryPrints(<<"2">>, <<">">>, <<"1">>, Value_Bool(TRUE))
    /\ BinaryPrints(<<"2">>, <<"<">>, <<"2">>, Value_Bool(FALSE))
    /\ UnaryPrints(<<"-">>, <<"2">>, Value_Number(F64(-1, 2, 1)))
    /\ \A op \in {<<"-">>, <<"*">>, <<"/">>, <<">">>, <<"<">>},
          a \in {<<"n", "i", "l">>, <<"t", "r", "u", "e">>, <<"\"", "1", "\"">>} :
          /\ parser.tokenizer.source
                 \in {PrintBinary(a, op, <<"1">>), PrintBinary(<<"1">>, op, a),
                      PrintBinary(a, op, a), PrintUnary(<<"-">>, a)}
                => OperationFailed

\* C19: Subtract, Multiply, Divide, Greater and Less fail with 'Operands must
\* be numbers.' when one of the top two values is not a Number, and Negate
\* with 'Operand(s) must be a number.' when the top value is not a Number;
\* on Numbers they do not fail and replace their operands by one value, a
\* Number for the arithmetic and Negate and a Bool for Greater and Less
NumbersOnlyInstructions ==
    [][BinopStep /\ NegateStep]_vars /\ []NumberExamples

\* `print 1 / 0;` has printed inf
DividedByZeroPrintedInf ==
    /\ Finished
    /\ parser.tokenizer.source = PrintBinary(<<"1">>, <<"/">>, <<"0">>)
    /\ ~RuntimeError
    /\ SinkTexts = << <<"i", "n", "f", "\n">> >>

(***************************************************************************)
(* Variable declarations                                                   *)
(***************************************************************************)
\* the VM is about to execute a DefineGlobal instruction, a value on the stack
AtDefineGlobal ==
    /\ AtOp(OpCode.DefineGlobal)
    /\ vm.ip + 2 <= Len(vm.chunk.code)
    /\ vm.stack_top >= 1

\* the name its operand stands for
DefineGlobalName ==
    Display(vm.chunk.value_array[vm.chunk.code[vm.ip + 2].byte + 1])

\* the step DefineGlobal takes: the name is bound to the stack's top, bound
\* before or not, every other binding is kept and the top is removed
DefineGlobalStep ==
    (AtDefineGlobal /\ vm' # vm) =>
        /\ Running(vm')
        /\ DOMAIN vm'.globals = DOMAIN vm.globals \cup {DefineGlobalName}
        /\ vm'.globals[DefineGlobalName] = TopB
        /\ \A name \in DOMAIN vm.globals \ {DefineGlobalName} :
              vm'.globals[name] = vm.globals[name]
        /\ StackOf(vm') = Below1
        /\ sink' = sink

\* a declaration with an initializer compiles to the initializer's code and
\* DefineGlobal, one without to Nil and DefineGlobal
DeclarationCode ==
    Compiled =>
        /\ parser.tokenizer.source = StVarX =>
              Bytes(parser.chunk) =
                  <<OpCode.Constant, 1, OpCode.DefineGlobal, 0, OpCode.Return>>
        /\ parser.tokenizer.source = StBlockVarY =>
              Bytes(parser.chunk) = <<OpCode.Nil, OpCode.DefineGlobal, 0, OpCode.Return>>

\* `var x = 1;` binds x to 1 and `{ var y; }` binds y to nil, the stack empty
\* after them; the x declared three times is 1, then "a", then nil
DeclarationExamples ==
    (RanToEnd /\ vm.status = "ok") =>
        /\ parser.tokenizer.source = StVarX =>
              (vm.globals[<<"x">>] = ValueOf(<<"1">>) /\ vm.stack_top = 0)
        /\ parser.tokenizer.source = StBlockVarY =>
              (vm.globals[<<"y">>] = Value_Nil /\ vm.stack_top = 0)
        /\ parser.tokenizer.source = ExRedeclare =>
              /\ SinkTexts = << <<"1", "\n">>, <<"a", "\n">>, <<"n", "i", "l", "\n">> >>
              /\ vm.globals = [name \in {<<"x">>} |-> Value_Nil]
              /\ vm.stack_top = 0

\* a program of declarations of x and prints of x never fails at run time
RedeclarationIsNoError ==
    parser.tokenizer.source = ExRedeclare => (Ok(parser) /\ ~RuntimeError)

\* C20: a variable declaration binds the name to the value of its
\* initializer, or to nil without an initializer, and removes that value
\* from the stack; declaring a bound name is not an error and replaces the
\* binding
DeclarationBindsAndPops ==
    /\ [][DefineGlobalStep]_vars
    /\ [](DeclarationCode /\ DeclarationExamples /\ RedeclarationIsNoError)

\* the x declared three times has been printed three times
RedeclaredThreeTimes ==
    /\ parser.tokenizer.source = ExRedeclare
    /\ RanToEnd
    /\ vm.status = "ok"
    /\ SinkTexts = << <<"1", "\n">>, <<"a", "\n">>, <<"n", "i", "l", "\n">> >>

(***************************************************************************)
(* The line of a token                                                     *)
(***************************************************************************)
\* how many of the first n characters of a text are newlines
NewlinesBefore(text, n) ==
    Cardinality({i \in 1..n : i <= Len(text) /\ text[i] = "\n"})

\* the line of the first character of the token the last call returned:
\* self.start is that character's index
FirstCharactersLine == 1 + NewlinesBefore(tokenizer.source, tokenizer.start)

\* C21 as stated: every token scan_token returns, a String token of several
\* lines, the 'Unterminated string' token and a token after a comment
\* included, carries the line of its first character
TokenLineIsFirstCharactersLine ==
    (tokens # <<>> /\ ~tokenizer.panic) => Last(tokens).line = FirstCharactersLine

(***************************************************************************)
(* The stack of compiled code                                              *)
(***************************************************************************)
\* the opcodes that end a statement, each removing the statement's value
StatementEnds == {OpCode.Print, OpCode.Pop, OpCode.DefineGlobal}

\* the values an instruction reads from the stack
Needs(op) ==
    IF op \in {OpCode.Add, OpCode.Subtract, OpCode.Multiply, OpCode.Divide,
               OpCode.Equal, OpCode.Greater, OpCode.Less} THEN 2
    ELSE IF op \in {OpCode.Negate, OpCode.Not, OpCode.SetGlobal} \cup StatementEnds THEN 1
    ELSE 0

\* the values it leaves
Leaves(op) ==
    IF op \in PushOpcodes THEN 1
    ELSE IF op \in StatementEnds \cup {OpCode.Return} THEN 0
    ELSE 1

RECURSIVE DepthAfter(_, _, _, _)
\* the values on the stack after the next n instructions from offset `at`,
\* entered with `depth` values; -1 when an instruction does not find the
\* values it reads, a statement does not end on one value or Return is not
\* reached on none
DepthAfter(code, at, depth, n) ==
    IF n = 0 \/ at >= Len(code) \/ depth < 0 THEN depth
    ELSE LET op == code[at + 1].byte IN
         IF \/ depth < Needs(op)
            \/ op \in StatementEnds /\ depth # 1
            \/ op = OpCode.Return /\ depth # 0
         THEN -1
         ELSE DepthAfter(code, NextInstruction(code, at),
                         depth - Needs(op) + Leaves(op), n - 1)

RECURSIVE DepthsFrom(_, _, _)
\* the code from offset `at` on, entered with `depth` values on the stack,
\* finds the values each instruction reads, one value at the end of each
\* statement and none at Return; checked run by run
DepthsFrom(code, at, depth) ==
    IF depth < 0 THEN FALSE
    ELSE IF at >= Len(code) THEN TRUE
    ELSE DepthsFrom(code, AfterRun(code, at, DecodeRun),
                    DepthAfter(code, at, depth, DecodeRun))

\* the opcode of the last instruction executed: run keeps its byte in
\* self.current_instruction
LastExecuted == vm.current_instruction.byte

\* the VM is about to execute the first instruction of a statement, or the
\* Return after the last statement
AtStatementStart ==
    /\ Running(vm)
    /\ IF vm.ip = 0 THEN TRUE ELSE LastExecuted \in StatementEnds

\* the first interpret call on the VM is in progress or has returned
FirstRun == calls = 1 /\ stage = "interpreted"

\* of the run of a compiled chunk on a new VM: no value on the stack where a
\* statement begins and at Return, one value where a statement ends, the
\* operands of every instruction on the stack, and no pop or peek below it
StackOfTheRun ==
    FirstRun =>
        /\ vm.status # "panic"
        /\ vm.stack_top \in 0..StackMax
        /\ AtStatementStart => vm.stack_top = 0
        /\ vm.status = "ok" => vm.stack_top = 0
        /\ \A op \in OpCodes : AtOp(op) =>
              /\ vm.stack_top >= Needs(op)
              /\ op \in StatementEnds => vm.stack_top = 1
              /\ op = OpCode.Return => vm.stack_top = 0

\* an instruction that does not fail takes the stack from what it needs to
\* what it leaves
StackEffect ==
    \A op \in OpCodes :
        (FirstRun /\ AtOp(op) /\ Running(vm')) =>
            vm'.stack_top = vm.stack_top - Needs(op) + Leaves(op)

\* the same of the chunk parse() returned, run or not
StackOfTheCode == Compiled => DepthsFrom(parser.chunk.code, 0, 0)

\* C22: a chunk returned by parse and run on a new VM has an empty stack
\* before the first instruction of each statement and at Return, every
\* expression leaves one value more than it found, which the end of its
\* statement removes, and no instruction pops or peeks below the stack
StackDiscipline ==
    /\ [](StackOfTheRun /\ StackOfTheCode)
    /\ [][StackEffect]_vars

\* the documented program has run its five statements and is at Return, the
\* stack empty
MainAtReturnWithEmptyStack ==
    /\ FirstRun
    /\ parser.tokenizer.source = ExMain
    /\ AtOp(OpCode.Return)
    /\ vm.stack_top = 0
    /\ Len(sink) = 2

(***************************************************************************)
(* The end of a run                                                        *)
(***************************************************************************)
\* the chunk parse() returned ends with a Return instruction, its only one
EndsWithReturn(chunk) ==
    /\ chunk.code # <<>>
    /\ Last(chunk.code).byte = OpCode.Return
    /\ \A at \in InstructionStarts(chunk.code) :
          chunk.code[at + 1].byte = OpCode.Return <=> at = Len(chunk.code) - 1

\* a run is at an instruction of its chunk while it goes on, and past the
\* last byte, the Return, when it has returned Ok; it never panics
RunWithinCode ==
    stage = "interpreted" =>
        /\ vm.status \in {"running", "ok", "err"}
        /\ vm.ip \in 0..Len(vm.chunk.code)
        /\ Running(vm) =>
              (vm.ip < Len(vm.chunk.code) /\ vm.ip \in InstructionStarts(vm.chunk.code))
        /\ vm.status = "ok" => vm.ip = Len(vm.chunk.code)

\* an iteration of run moves ip by the length of the instruction, 1 or 2,
\* whether the instruction fails or not, and stops only at Return, at a
\* runtime error or at an error of the sink
IpAdvances ==
    (Running(vm) /\ vm' # vm) =>
        /\ vm'.chunk = vm.chunk
        /\ vm'.ip - vm.ip = IF vm.chunk.code[vm.ip + 1].byte \in WithOperand THEN 2 ELSE 1
        /\ vm'.status = "ok" <=> AtOp(OpCode.Return)
        /\ vm'.status = "err" =>
              IF vm'.error = SinkError
              THEN AtOp(OpCode.Print) /\ Last(sink').result = "err"
              ELSE IsDiagnostic(vm'.error, vm.chunk.code[vm.ip + 1].line)
        /\ vm'.status \in {"running", "ok", "err"}

Fill(n) == [i \in 1..(2 * n) |-> IF i % 2 = 1 THEN "1" ELSE ";"]

\* var x = "a"; x = x + "b"; print x;  six constants: x, a, x, x, b, x
StPoolTail ==
    <<"v", "a", "r", " ", "x", " ", "=", " ", "\"", "a", "\"", ";", " ", "x", " ",
      "=", " ", "x", " ", "+", " ", "\"", "b", "\"", ";", " ", "p", "r", "i", "n",
      "t", " ", "x", ";">>

\* programs of 6 constants and of one fewer than, as many as and one more
\* than a u8 counts
PoolPrograms == {Fill(n) \o StPoolTail : n \in {0, U8Max - 6, U8Max - 5, U8Max - 4}}

\* one of them, or one of the documented programs, compiled and run on a new VM
PoolInit ==
    /\ tokenizer = Tokenizer_new(<<>>)
    /\ tokens = <<>>
    /\ overflow_checks \in BOOLEAN
    /\ parser \in {Parser_new(e) : e \in PoolPrograms \cup Examples}
    /\ stage = "new"
    /\ vm = VM_new
    /\ sink = <<>>
    /\ calls = 0
    /\ second = NoSecond

PoolSpec == PoolInit /\ [][ExprNext]_vars

\* the tokens that add a constant to the pool when they are compiled
PoolTokens == {"Number", "String", "Ident"}

\* those of a token sequence, in order
PoolTokensOf(all) == SelectSeq(all, LAMBDA tok : tok.ty \in PoolTokens)

\* the instructions whose operand is the index of a name
GlobalOpcodes == {OpCode.DefineGlobal, OpCode.GetGlobal, OpCode.SetGlobal}

\* every instruction of the chunk has one of the opcodes, with its operand
\* byte when it takes one; the operand is the index of a constant: of a
\* literal's for Constant, and for the global instructions of a String that
\* is the text of an identifier of the source
Decodable(chunk, source) ==
    LET made == PoolTokensOf(TokensFrom(Tokenizer_new(source)))
    IN \A at \in InstructionStarts(chunk.code) :
          LET op == chunk.code[at + 1].byte IN
          /\ op \in OpCodes
          /\ op \in WithOperand =>
                /\ at + 2 <= Len(chunk.code)
                /\ LET operand == chunk.code[at + 2].byte IN
                   /\ operand < Len(chunk.value_array)
                   /\ operand < Len(made)
                   /\ IF op \in GlobalOpcodes
                      THEN /\ made[operand + 1].ty = "Ident"
                           /\ chunk.value_array[operand + 1]
                                  = Value_String(made[operand + 1].text)
                      ELSE made[operand + 1].ty \in {"Number", "String"}

\* a chunk of at most 256 constants that parse() returned is decodable
CompiledIsDecodable ==
    (Compiled /\ Len(parser.chunk.value_array) <= U8Max + 1)
        => Decodable(parser.chunk, parser.tokenizer.source)

\* run decodes an opcode at every fetch and finds the constant of every
\* operand: it does not panic
RunDecodes ==
    (stage = "interpreted" /\ Len(vm.chunk.value_array) <= U8Max + 1) =>
        /\ vm.status # "panic"
        /\ Running(vm) =>
              /\ vm.ip < Len(vm.chunk.code)
              /\ vm.chunk.code[vm.ip + 1].byte \in OpCodes
              /\ vm.chunk.code[vm.ip + 1].byte \in WithOperand =>
                    /\ vm.ip + 2 <= Len(vm.chunk.code)
                    /\ vm.chunk.code[vm.ip + 2].byte < Len(vm.chunk.value_array)
              /\ vm.chunk.code[vm.ip + 1].byte \in GlobalOpcodes =>
                    is_string(vm.chunk.value_array[vm.chunk.code[vm.ip + 2].byte + 1])

\* C24: in a chunk returned by parse for a source of at most 256 constants
\* every byte fetched as an opcode is one of the 19 opcodes, every operand of
\* Constant, DefineGlobal, GetGlobal and SetGlobal is smaller than the number
\* of constants, and the operand of the global instructions is the index of
\* a String constant that is the identifier's text
DecodingNeverFails == CompiledIsDecodable /\ RunDecodes

\* the program of 256 constants, compiled without overflow checks, has run:
\* x, named by the constants of index 250, 252, 253 and 255, is "ab"
FullPoolRan ==
    /\ parser.tokenizer.source = Fill(U8Max - 5) \o StPoolTail
    /\ Len(vm.chunk.value_array) = U8Max + 1
    /\ RanToEnd
    /\ vm.status = "ok"
    /\ SinkTexts = << <<"a", "b", "\n">> >>

(***************************************************************************)
(* What a failing instruction leaves                                       *)
(***************************************************************************)
\* the operands of the operations that fail: a number, nil, a string, the
\* bound g and the unbound x
FailOperands == {<<"1">>, <<"n", "i", "l">>, <<"\"", "a", "\"">>, <<"g">>, <<"x">>}
FailOperators == {<<"+">>, <<"-">>, <<"*">>, <<"/">>, <<">">>, <<"<">>, <<"=">>}

\* var g = 1; print 2 + (body);  the operation is run with g bound and the
\* number 2 on the stack
FailProgram(body) ==
    <<"v", "a", "r", " ", "g", " ", "=", " ", "1", ";", " ", "p", "r", "i", "n", "t",
      " ", "2", " ", "+", " ", "(">> \o body \o <<")", ";">>

FailPrograms ==
    {FailProgram(a \o <<" ">> \o op \o <<" ">> \o b) :
        a \in FailOperands, op \in FailOperators, b \in FailOperands}
    \cup {FailProgram(<<"-">> \o a) : a \in FailOperands}

\* one of these programs, compiled and run on a new VM
FailInit ==
    /\ tokenizer = Tokenizer_new(<<>>)
    /\ tokens = <<>>
    /\ overflow_checks \in BOOLEAN
    /\ parser \in {Parser_new(e) : e \in FailPrograms}
    /\ stage = "new"
    /\ vm = VM_new
    /\ sink = <<>>
    /\ calls = 0
    /\ second = NoSecond

FailSpec == FailInit /\ [][ExprNext]_vars

\* the instructions that can fail with a type error or with an undefined
\* variable
CheckingOpcodes ==
    {OpCode.Negate, OpCode.Add, OpCode.Subtract, OpCode.Multiply, OpCode.Divide,
     OpCode.Greater, OpCode.Less, OpCode.GetGlobal, OpCode.SetGlobal}

\* the step of an instruction that fails moves ip past the instruction and
\* leaves stack_top, the values on the stack and the global table as they were
FailingStepKeepsState ==
    \A op \in CheckingOpcodes :
        (AtOp(op) /\ vm'.status = "err") =>
            /\ vm'.stack_top = vm.stack_top
            /\ StackOf(vm') = StackOf(vm)
            /\ vm'.globals = vm.globals
            /\ vm'.ip = NextInstruction(vm.chunk.code, vm.ip)
            /\ vm'.chunk = vm.chunk
            /\ sink' = sink

\* a runtime error comes from one of these instructions only
RuntimeErrorIsOfChecking ==
    (Running(vm) /\ vm'.status = "err" /\ vm'.error # SinkError) =>
        \E op \in CheckingOpcodes : AtOp(op)

\* what the failed programs end with: 2 and the operands read so far on the
\* stack, g bound to 1
FailedOperationsState ==
    (Finished /\ RuntimeError) =>
        /\ vm.stack_top >= 1
        /\ vm.stack[1] = ValueOf(<<"2">>)
        /\ <<"g">> \in DOMAIN vm.globals
        /\ <<"x">> \notin DOMAIN vm.globals
        /\ SinkTexts = <<>>

\* C25: an instruction that fails with a type error (Negate, Add, Subtract,
\* Multiply, Divide, Greater, Less) or with an undefined variable (GetGlobal,
\* SetGlobal) changes ip only: stack_top, the values below it and the global
\* table are what they were before the instruction
FailureChangesNothingButIp ==
    /\ [][FailingStepKeepsState /\ RuntimeErrorIsOfChecking]_vars
    /\ []FailedOperationsState

\* `var g = 1; print 2 + (g < nil);` has failed at Less: 2, 1 and nil are on
\* the stack and g is 1
LessFailedWithOperandsOnStack ==
    /\ parser.tokenizer.source = FailProgram(<<"g", " ", "<", " ", "n", "i", "l">>)
    /\ Finished
    /\ RuntimeError
    /\ StackOf(vm) = <<ValueOf(<<"2">>), ValueOf(<<"1">>), Value_Nil>>
    /\ vm.globals = [name \in {<<"g">>} |-> ValueOf(<<"1">>)]

(***************************************************************************)
(* The names in the constant pool                                          *)
(***************************************************************************)

\* the tokens a step of parse() compiles: the token that was ahead in
\* self.current and those scanned during the step, but for the token ahead
\* after it
TokensOfStep ==
    LET scanned == TokensFrom(Tokenizer_new(
                       SubSeq(parser.tokenizer.source, parser.tokenizer.current + 1,
                              parser'.tokenizer.current)))
        all == <<parser.current>> \o scanned
    IN IF parser'.current.ty = "EndOfFile" THEN all ELSE SubSeq(all, 1, Len(all) - 1)

\* parse() compiles a declaration, without an error
DeclarationCompiled ==
    /\ stage = "declarations"
    /\ parser' # parser
    /\ Ok(parser')

\* the step appends one constant for each number literal, string literal and
\* identifier it compiles, in their order, the identifier's a String of its
\* text
PoolCountsOccurrences ==
    DeclarationCompiled =>
        LET made == PoolTokensOf(TokensOfStep)
            before == parser.chunk.value_array
            after == parser'.chunk.value_array
        IN /\ Len(after) = Len(before) + Len(made)
           /\ SubSeq(after, 1, Len(before)) = before
           /\ \A k \in 1..Len(made) :
                 made[k].ty \in {"Ident", "String"} =>
                     after[Len(before) + k] = Value_String(made[k].text)

\* the operands of the global instructions the step emits are the indices
\* of the constants it made for the identifiers, one instruction for each
OperandIsOwnEntry ==
    DeclarationCompiled =>
        LET made == PoolTokensOf(TokensOfStep)
            before == Len(parser.chunk.value_array)
            code == parser'.chunk.code
            emitted == {at \in StartsFrom(code, Len(parser.chunk.code)) :
                           code[at + 1].byte \in GlobalOpcodes}
        IN /\ {code[at + 2].byte : at \in emitted}
                  = {before + k - 1 : k \in {j \in 1..Len(made) : made[j].ty = "Ident"}}
           /\ Cardinality(emitted)
                  = Cardinality({j \in 1..Len(made) : made[j].ty = "Ident"})

\* C26 as stated: every occurrence of an identifier appends a String
\* constant of its own, so that after compiling any prefix of a program the
\* pool has as many constants as number literals, string literals and
\* identifier occurrences were compiled, and the operand emitted for an
\* occurrence is the index of its own entry
NamesHaveTheirOwnConstants == [][PoolCountsOccurrences /\ OperandIsOwnEntry]_vars

===========================================================================
